---- MODULE Spec2Model ----
(***************************************************************************)
(* A model of scripts/build.py: the reconciliation of the feed records     *)
(* with the bulk (CSV) records (merge_rss_and_csv) and the pipeline that   *)
(* main drives around it.                                                  *)
(*                                                                         *)
(* Text is a sequence of one-character strings, so that strip, lower and   *)
(* slicing are computed as Python computes them.  A book is a Python dict: *)
(* a function from field names to values, whose DOMAIN is the set of keys  *)
(* the dict holds.  An ordered dict (csv_books, merged) is a sequence of   *)
(* [key, val] entries with pairwise distinct keys, in insertion order.     *)
(***************************************************************************)
EXTENDS Integers, Sequences, FiniteSets, TLC

VARIABLES
    rss_books,      \* merge_rss_and_csv: the feed records (argument)
    csv_books,      \* merge_rss_and_csv / main: the bulk mapping
    csv_by_title,   \* merge_rss_and_csv: title key -> book id
    merged,         \* merge_rss_and_csv: the result mapping being built
    idx,            \* merge_rss_and_csv: feed records consumed by the loop
    result,         \* merge_rss_and_csv: the returned list
    mpc,            \* merge_rss_and_csv: position in the function
    pc,             \* main: position in the function
    read_xml,       \* main: the pages fetched from the "read" shelf
    current_xml,    \* main: the pages fetched from "currently-reading"
    toread_xml,     \* main: the pages fetched from "to-read"
    read_books,     \* main: the read records
    current_books,  \* main: the currently-reading records
    toread_books,   \* main: the to-read records
    cover_map,      \* main: file name -> path, as ensure_covers returns it
    files,          \* the cover directory: file name -> size in bytes
    effects,        \* what the run has done to the world so far, in order
    output,         \* the data behind the written index.html, or NotWritten
    exit_code,      \* the exit status of the run, or Running
    server,         \* fetch_rss: what the server holds for the shelf, by page
    page_size,      \* fetch_rss: per_page
    next_page,      \* fetch_rss: page
    all_xml_pages,  \* fetch_rss: the pages collected
    requested,      \* fetch_rss: the page numbers requested so far, in order
    fetch_log,      \* fetch_rss: the requests and the sleeps so far, in order
    fpc,            \* fetch_rss: position in the function
    all_books,      \* ensure_covers: the records (argument)
    network,        \* ensure_covers: what each URL answers
    cidx,           \* ensure_covers: records the loop has been through
    outcomes,       \* ensure_covers: what the loop printed for each record
    calls,          \* ensure_covers: which call this is, the first or the second
    first_call,     \* ensure_covers: what the first call returned and did
    cpc,            \* ensure_covers: position in the function
    raw_item,       \* parse_rss: the item of the feed
    raw_row,        \* load_csv: the row of the bulk file
    feed_recs,      \* parse_rss: the records returned
    bulk_recs,      \* load_csv: the mapping returned
    reconciled,     \* what main makes of the two
    ppc             \* the parsers: which is next

mergeVars == <<rss_books, csv_by_title, merged, idx, result, mpc>>

mainVars ==
    <<pc, read_xml, current_xml, toread_xml, read_books, current_books, toread_books,
      cover_map, files, effects, output, exit_code>>

fetchVars == <<server, page_size, next_page, all_xml_pages, requested, fetch_log, fpc>>

\* The variables of the functions that are also run on their own
coverVars == <<all_books, network, cidx, outcomes, calls, first_call, cpc>>

\* main's variables but those of the cover step
mainOnlyVars ==
    <<pc, read_xml, current_xml, toread_xml, read_books, current_books, toread_books,
      output, exit_code>>

parseVars == <<raw_item, raw_row, feed_recs, bulk_recs, reconciled, ppc>>

unitVars == <<fetchVars, coverVars, parseVars>>

vars ==
    <<rss_books, csv_books, csv_by_title, merged, idx, result, mpc, mainVars, unitVars>>

----------------------------------------------------------------------------
(* Bounds of the model *)

MaxFeed == 2        \* feed records handed to one merge_rss_and_csv call
MaxBulk == 3        \* bulk records handed to one merge_rss_and_csv call

MaxItems == 2       \* items on a page of the "read" feed
MaxRows == 2        \* rows of the bulk file
MaxPages == 3       \* pages the server holds when fetch_rss is run on its own
MaxPageSize == 2    \* the largest per_page fetch_rss is run with on its own
MaxCovers == 2      \* records handed to ensure_covers when it is run on its own

\* [:60], the length of a title key
TitleKeyLen == 60

----------------------------------------------------------------------------
(* Text *)

Min(a, b) == IF a <= b THEN a ELSE b

\* The characters of the model in code-point order (Python compares str by
\* code point).
Alphabet ==
    <<
       " ", "\"", "+", ",", "-", ".", "/", "0", "1", "2", "3", "4", "5", "6",
       "7", "8", "9", ":", "<", "=", ">", "A", "B", "C", "D", "E", "F", "G",
       "H", "I", "J", "K", "L", "M", "N", "O", "P", "Q", "R", "S", "T", "U",
       "V", "W", "X", "Y", "Z", "_", "a", "b", "c", "d", "e", "f", "g", "h",
       "i", "j", "k", "l", "m", "n", "o", "p", "q", "r", "s", "t", "u", "v",
       "w", "x", "y", "z" >>

Code(c) == CHOOSE i \in 1..Len(Alphabet) : Alphabet[i] = c

UpperChars ==
    <<
       "A", "B", "C", "D", "E", "F", "G", "H", "I", "J", "K", "L", "M", "N",
       "O", "P", "Q", "R", "S", "T", "U", "V", "W", "X", "Y", "Z" >>

LowerChars ==
    <<
       "a", "b", "c", "d", "e", "f", "g", "h", "i", "j", "k", "l", "m", "n",
       "o", "p", "q", "r", "s", "t", "u", "v", "w", "x", "y", "z" >>

LowerChar(c) ==
    IF \E i \in 1..Len(UpperChars) : UpperChars[i] = c
    THEN LowerChars[CHOOSE i \in 1..Len(UpperChars) : UpperChars[i] = c]
    ELSE c

\* str.lower()
Lower(s) == [i \in 1..Len(s) |-> LowerChar(s[i])]

IsSpace(c) == c = " "

RECURSIVE LStrip(_)
LStrip(s) == IF s # <<>> /\ IsSpace(Head(s)) THEN LStrip(Tail(s)) ELSE s

RECURSIVE RStrip(_)
RStrip(s) ==
    IF s # <<>> /\ IsSpace(s[Len(s)]) THEN RStrip(SubSeq(s, 1, Len(s) - 1)) ELSE s

\* str.strip()
Strip(s) == RStrip(LStrip(s))

\* s[:n]
Take(s, n) == SubSeq(s, 1, Min(n, Len(s)))

\* a < b on str
StrLess(a, b) ==
    \E i \in 1..(Min(Len(a), Len(b)) + 1) :
        /\ \A j \in 1..(i - 1) : a[j] = b[j]
        /\ \/ i > Len(a) /\ i <= Len(b)
           \/ i <= Len(a) /\ i <= Len(b) /\ Code(a[i]) < Code(b[i])

\* s[:n] for the prefix test, s[n:] for the rest
Drop(s, n) == SubSeq(s, n + 1, Len(s))

StartsWith(s, prefix) == Len(s) >= Len(prefix) /\ SubSeq(s, 1, Len(prefix)) = prefix

\* sub in s
Contains(s, sub) ==
    \E i \in 0..(Len(s) - Len(sub)) : SubSeq(s, i + 1, i + Len(sub)) = sub

Digits == << "0", "1", "2", "3", "4", "5", "6", "7", "8", "9" >>

IsDigit(c) == \E i \in 1..10 : Digits[i] = c

DigitVal(c) == (CHOOSE i \in 1..10 : Digits[i] = c) - 1

AllDigits(s) == \A i \in 1..Len(s) : IsDigit(s[i])

\* re.sub(r"[^0-9]", "", s)
IsDigitChar(c) == IsDigit(c)

\* The mutant of DigitsOnly that keeps the check digit X of an ISBN-10
DigitsAndX(s) == SelectSeq(s, LAMBDA c : IsDigitChar(c) \/ c = "X")

DigitsOnly(s) == SelectSeq(s, IsDigitChar)

\* The number a run of decimal digits denotes
RECURSIVE ToNat(_)
ToNat(s) == IF s = <<>> THEN 0 ELSE 10 * ToNat(SubSeq(s, 1, Len(s) - 1)) + DigitVal(s[Len(s)])

\* str(n) for n >= 0
RECURSIVE NatToStr(_)
NatToStr(n) == IF n < 10 THEN << Digits[n + 1] >> ELSE NatToStr(n \div 10) \o << Digits[(n % 10) + 1] >>

\* Two digits, zero-padded (%d, %m in strftime)
TwoDigits(n) == << Digits[(n \div 10) + 1], Digits[(n % 10) + 1] >>

\* The longest prefix of s that consists of digits
RECURSIVE DigitPrefix(_)
DigitPrefix(s) ==
    IF s # <<>> /\ IsDigit(Head(s)) THEN << Head(s) >> \o DigitPrefix(Tail(s)) ELSE <<>>

\* int(s) for a str: surrounding blanks and one sign are allowed around a run of
\* digits; anything else raises ValueError (ok = FALSE).
IntOf(s) ==
    LET t == Strip(s)
        signed == t # <<>> /\ Head(t) \in {"+", "-"}
        body == IF signed THEN Tail(t) ELSE t
    IN  IF body # <<>> /\ AllDigits(body)
        THEN [ok |-> TRUE, val |-> IF signed /\ Head(t) = "-" THEN 0 - ToNat(body) ELSE ToNat(body)]
        ELSE [ok |-> FALSE, val |-> 0]

\* try: int(s or 0) except ValueError: 0
IntOrZero(s) == IF s = <<>> THEN 0 ELSE IF IntOf(s).ok THEN IntOf(s).val ELSE 0

\* A float: a number, kept in hundredths, or one of nan, inf and -inf
Float(h) == [kind |-> "number", hundredths |-> h]
NaN == [kind |-> "nan", hundredths |-> 0]
Infinity(neg) == [kind |-> IF neg THEN "-inf" ELSE "inf", hundredths |-> 0]

\* float(s) for a str, in hundredths: blanks and one sign around digits with an
\* optional point and fraction (the digits after the second are dropped), or
\* nan, inf and infinity in any case; anything else raises ValueError.
FloatOf(s) ==
    LET t == Strip(s)
        signed == t # <<>> /\ Head(t) \in {"+", "-"}
        neg == signed /\ Head(t) = "-"
        body == IF signed THEN Tail(t) ELSE t
        whole == DigitPrefix(body)
        rest == Drop(body, Len(whole))
        frac == IF rest # <<>> /\ Head(rest) = "." THEN Tail(rest) ELSE <<>>
        cents == ToNat(Take(frac \o << "0", "0" >>, 2))
        magnitude == 100 * ToNat(whole) + cents
    IN  IF Lower(body) \in { << "n", "a", "n" >> }
        THEN [ok |-> TRUE, val |-> NaN]
        ELSE IF Lower(body) \in { << "i", "n", "f" >>, << "i", "n", "f", "i", "n", "i", "t", "y" >> }
        THEN [ok |-> TRUE, val |-> Infinity(neg)]
        ELSE IF /\ (rest = <<>> \/ Head(rest) = ".")
                /\ AllDigits(frac)
                /\ Len(whole) + Len(frac) > 0
        THEN [ok |-> TRUE, val |-> Float(IF neg THEN 0 - magnitude ELSE magnitude)]
        ELSE [ok |-> FALSE, val |-> 0]

\* try: float(s or 0) except ValueError: 0.0
FloatOrZero(s) == IF s = <<>> THEN Float(0) ELSE IF FloatOf(s).ok THEN FloatOf(s).val ELSE Float(0)

\* re.sub(r"<[^>]+>", " ", s): every "<", one character or more that is not ">",
\* and the ">" after them become one blank.
RECURSIVE StripTags(_)
StripTags(s) ==
    IF s = <<>> THEN <<>>
    ELSE IF Head(s) = "<" /\ \E j \in 3..Len(s) : s[j] = ">" /\ \A i \in 2..(j - 1) : s[i] # ">"
    THEN LET j == CHOOSE j \in 3..Len(s) : s[j] = ">" /\ \A i \in 2..(j - 1) : s[i] # ">"
         IN  << " " >> \o StripTags(Drop(s, j))
    ELSE << Head(s) >> \o StripTags(Tail(s))

\* re.sub(r"\s+", " ", s)
RECURSIVE CollapseSpaces(_)
CollapseSpaces(s) ==
    IF s = <<>> THEN <<>>
    ELSE IF IsSpace(Head(s))
    THEN << " " >> \o CollapseSpaces(LStrip(s))
    ELSE << Head(s) >> \o CollapseSpaces(Tail(s))

\* The pieces of s between the occurrences of the character c
RECURSIVE SplitOn(_, _)
SplitOn(s, c) ==
    IF \E i \in 1..Len(s) : s[i] = c
    THEN LET i == CHOOSE i \in 1..Len(s) : s[i] = c /\ \A j \in 1..(i - 1) : s[j] # c
         IN  << SubSeq(s, 1, i - 1) >> \o SplitOn(Drop(s, i), c)
    ELSE << s >>

\* The pieces of s between its runs of blanks
Words(s) == SelectSeq(SplitOn(s, " "), LAMBDA w : w # <<>>)

----------------------------------------------------------------------------
(* datetime.strptime and strftime, for the two formats the program uses *)

MonthNames ==
    << << "J", "a", "n" >>, << "F", "e", "b" >>, << "M", "a", "r" >>, << "A", "p", "r" >>,
       << "M", "a", "y" >>, << "J", "u", "n" >>, << "J", "u", "l" >>, << "A", "u", "g" >>,
       << "S", "e", "p" >>, << "O", "c", "t" >>, << "N", "o", "v" >>, << "D", "e", "c" >> >>

DayNames ==
    { << "M", "o", "n" >>, << "T", "u", "e" >>, << "W", "e", "d" >>, << "T", "h", "u" >>,
      << "F", "r", "i" >>, << "S", "a", "t" >>, << "S", "u", "n" >> }

IsLeap(y) == (y % 4 = 0 /\ y % 100 # 0) \/ y % 400 = 0

DaysIn(y, m) ==
    IF m = 2 THEN (IF IsLeap(y) THEN 29 ELSE 28)
    ELSE IF m \in {4, 6, 9, 11} THEN 30 ELSE 31

\* A field of one or two digits with a value in lo..hi (%d, %m, %H, %M, %S)
IsField(w, lo, hi) == Len(w) \in {1, 2} /\ AllDigits(w) /\ ToNat(w) \in lo..hi

\* %Y: four digits, and datetime has no year 0
IsYear(w) == Len(w) = 4 /\ AllDigits(w) /\ ToNat(w) >= 1

\* dt.strftime("%d %b %Y") and dt.strftime("%Y-%m-%d")
DisplayDate(y, m, d) == TwoDigits(d) \o << " " >> \o MonthNames[m] \o << " " >> \o NatToStr(y)
FourDigits(y) == TwoDigits(y \div 100) \o TwoDigits(y % 100)
IsoDate(y, m, d) == FourDigits(y) \o << "-" >> \o TwoDigits(m) \o << "-" >> \o TwoDigits(d)

NoDate == [ok |-> FALSE, y |-> 0, m |-> 0, d |-> 0]

\* datetime.strptime(s, "%a, %d %b %Y %H:%M:%S"): ok = FALSE is the ValueError
StrptimeFeed(s) ==
    LET w == Words(s)
        hms == IF Len(w) = 5 THEN SplitOn(w[5], ":") ELSE <<>>
        month == IF Len(w) = 5 /\ \E m \in 1..12 : Lower(MonthNames[m]) = Lower(w[3])
                 THEN CHOOSE m \in 1..12 : Lower(MonthNames[m]) = Lower(w[3])
                 ELSE 0
    IN  IF /\ Len(w) = 5
           /\ s # <<>> /\ ~IsSpace(Head(s)) /\ ~IsSpace(s[Len(s)])
           /\ Len(w[1]) = 4 /\ w[1][4] = ","
           /\ \E n \in DayNames : Lower(n) = Lower(SubSeq(w[1], 1, 3))
           /\ IsField(w[2], 1, 31)
           /\ month # 0
           /\ IsYear(w[4])
           /\ ToNat(w[2]) <= DaysIn(ToNat(w[4]), month)
           /\ Len(hms) = 3
           /\ IsField(hms[1], 0, 23) /\ IsField(hms[2], 0, 59) /\ IsField(hms[3], 0, 59)
        THEN [ok |-> TRUE, y |-> ToNat(w[4]), m |-> month, d |-> ToNat(w[2])]
        ELSE NoDate

\* datetime.strptime(s, "%Y/%m/%d")
StrptimeCsv(s) ==
    LET w == SplitOn(s, "/")
    IN  IF /\ Len(w) = 3
           /\ IsYear(w[1])
           /\ IsField(w[2], 1, 12)
           /\ IsField(w[3], 1, 31)
           /\ ToNat(w[3]) <= DaysIn(ToNat(w[1]), ToNat(w[2]))
        THEN [ok |-> TRUE, y |-> ToNat(w[1]), m |-> ToNat(w[2]), d |-> ToNat(w[3])]
        ELSE NoDate

----------------------------------------------------------------------------
(* Python dicts *)

\* d.get(k, default)
Get(d, k, default) == IF k \in DOMAIN d THEN d[k] ELSE default

\* d[k] = v
Assign(d, k, v) == [x \in DOMAIN d \cup {k} |-> IF x = k THEN v ELSE d[x]]

\* The mutant of Update that fills in the keys a lacks and overwrites none
UpdateMissingOnly(a, b) ==
    [x \in DOMAIN a \cup DOMAIN b |-> IF x \in DOMAIN a THEN a[x] ELSE b[x]]

\* a.update(b)
Update(a, b) == [x \in DOMAIN a \cup DOMAIN b |-> IF x \in DOMAIN b THEN b[x] ELSE a[x]]

\* An ordered dict: k in d, d[k], d[k] = v, d.values()
HasKey(d, k) == \E i \in 1..Len(d) : d[i].key = k

Lookup(d, k) == d[CHOOSE i \in 1..Len(d) : d[i].key = k].val

Put(d, k, v) ==
    IF HasKey(d, k)
    THEN [i \in 1..Len(d) |-> IF d[i].key = k THEN [key |-> k, val |-> v] ELSE d[i]]
    ELSE Append(d, [key |-> k, val |-> v])

Values(d) == [i \in 1..Len(d) |-> d[i].val]

Keys(d) == {d[i].key : i \in 1..Len(d)}

----------------------------------------------------------------------------
(* fetch_rss and parse_rss *)

\* Page sizes main asks for
ReadPerPage == 200
CurrentPerPage == 10
ToReadPerPage == 50

\* review[:2000]
ReviewCap == 2000

\* len(isbn) < 10
IsbnMinLen == 10

\* What the feed server answers to a page request: the request fails ("error",
\* fetch_rss_page returns None), or the body is empty ("empty"), is not XML
\* ("garbage"), or is a document with the given items.  A feed is the sequence
\* of the server's answers by page number; past its end it has no items.
XmlPage(items) == [kind |-> "xml", items |-> items]
FailedPage == [kind |-> "error", items |-> <<>>]
EmptyBody == [kind |-> "empty", items |-> <<>>]
GarbagePage == [kind |-> "garbage", items |-> <<>>]

fetch_rss_page(feed, page) == IF page <= Len(feed) THEN feed[page] ELSE XmlPage(<<>>)

\* The mutant of Unusable that takes a body that is not XML for a page
UnusableLetsGarbageIn(xml) ==
    \/ xml.kind \in {"error", "empty"}
    \/ xml.kind = "xml" /\ xml.items = <<>>

\* The page ends the loop and is not collected: "if not xml", ET.ParseError,
\* "if not items"
Unusable(xml) ==
    \/ xml.kind \in {"error", "empty"}
    \/ xml.kind = "garbage"
    \/ xml.items = <<>>

\* The mutant of LastPage that is one item off
LastPageOneOff(xml, per_page) == Len(xml.items) < per_page - 1

\* if len(items) < per_page: break
LastPage(xml, per_page) == Len(xml.items) < per_page

\* The loop of fetch_rss from page `page` on, all_xml_pages being `pages`
RECURSIVE FetchFrom(_, _, _, _)
FetchFrom(feed, page, per_page, pages) ==
    LET xml == fetch_rss_page(feed, page)
    IN  IF Unusable(xml) THEN pages
        ELSE IF LastPage(xml, per_page) THEN Append(pages, xml)
        ELSE FetchFrom(feed, page + 1, per_page, Append(pages, xml))

fetch_rss(feed, per_page) == FetchFrom(feed, 1, per_page, <<>>)

\* get(tag): the stripped text of the item's element, "" without the element
TagText(item, tag) == IF tag \in DOMAIN item THEN Strip(item[tag]) ELSE <<>>

\* a or b, on str
Or(a, b) == IF a # <<>> THEN a ELSE b

ShowPath == << "/", "s", "h", "o", "w", "/" >>

\* re.search(r"/show/(\d+)", link): the digits after the first "/show/" that a
\* digit follows, and 0 when there is none
ShowId(link) ==
    LET hits == {i \in 1..Len(link) :
                    /\ StartsWith(Drop(link, i - 1), ShowPath)
                    /\ DigitPrefix(Drop(link, i + 5)) # <<>>}
    IN  IF hits = {} THEN 0
        ELSE ToNat(DigitPrefix(Drop(link, (CHOOSE i \in hits : \A j \in hits : i <= j) + 5)))

\* The record parse_rss appends for one item
ParseItem(item) ==
    LET digits == DigitsOnly(Or(TagText(item, "isbn13"), TagText(item, "isbn")))
        date_read_raw == Or(TagText(item, "user_read_at"), TagText(item, "pubDate"))
        dt == StrptimeFeed(Strip(Take(date_read_raw, 25)))
        review == CollapseSpaces(Strip(StripTags(TagText(item, "user_review"))))
    IN  [id |-> ShowId(TagText(item, "link")),
         title |-> TagText(item, "title"),
         author |-> TagText(item, "author_name"),
         isbn |-> IF Len(digits) < IsbnMinLen THEN <<>> ELSE digits,
         rating |-> IntOrZero(TagText(item, "user_rating")),
         avg_rating |-> FloatOrZero(TagText(item, "average_rating")),
         pages |-> IntOrZero(TagText(item, "num_pages")),
         date |-> IF dt.ok THEN DisplayDate(dt.y, dt.m, dt.d) ELSE Take(date_read_raw, 10),
         date_iso |-> IF dt.ok THEN IsoDate(dt.y, dt.m, dt.d) ELSE <<>>,
         date_added |-> Take(TagText(item, "user_date_added"), 10),
         publisher |-> TagText(item, "publisher"),
         binding |-> TagText(item, "binding"),
         year_pub |-> TagText(item, "book_published"),
         review |-> Take(review, ReviewCap),
         link |-> TagText(item, "link"),
         image_url |-> Or(TagText(item, "book_large_image_url"),
                          Or(TagText(item, "book_medium_image_url"),
                             TagText(item, "book_small_image_url")))]

ParsePage(xml) ==
    IF xml.kind = "xml" THEN [i \in 1..Len(xml.items) |-> ParseItem(xml.items[i])] ELSE <<>>

RECURSIVE ParsePages(_, _)
ParsePages(xml_pages, n) ==
    IF n = 0 THEN <<>> ELSE ParsePages(xml_pages, n - 1) \o ParsePage(xml_pages[n])

parse_rss(xml_pages) == ParsePages(xml_pages, Len(xml_pages))

----------------------------------------------------------------------------
(* load_csv *)

\* row.get(column, default) or "", for a text column
Column(row, column) == IF column \in DOMAIN row THEN row[column] ELSE <<>>

\* clean_isbn
clean_isbn(val) ==
    LET digits == DigitsOnly(val) IN IF Len(digits) >= IsbnMinLen THEN digits ELSE <<>>

\* str(n)
IntToStr(n) == IF n < 0 THEN << "-" >> \o NatToStr(0 - n) ELSE NatToStr(n)

BookUrl ==
    << "h", "t", "t", "p", "s", ":", "/", "/", "w", "w", "w", ".", "g", "o", "o", "d",
       "r", "e", "a", "d", "s", ".", "c", "o", "m", "/", "b", "o", "o", "k", "/", "s",
       "h", "o", "w", "/" >>

\* f"https://www.goodreads.com/book/show/{book_id}" if book_id else ""
BookLink(book_id) == IF book_id # 0 THEN BookUrl \o IntToStr(book_id) ELSE <<>>

\* The record load_csv stores for one row
ParseRow(row) ==
    LET book_id == IntOrZero(Column(row, "Book Id"))
        date_read_raw == Strip(Column(row, "Date Read"))
        dt == StrptimeCsv(date_read_raw)
    IN  [id |-> book_id,
         title |-> Strip(Column(row, "Title")),
         author |-> Strip(Column(row, "Author")),
         isbn |-> Or(clean_isbn(Column(row, "ISBN13")), clean_isbn(Column(row, "ISBN"))),
         rating |-> IntOrZero(Column(row, "My Rating")),
         avg_rating |-> FloatOrZero(Column(row, "Average Rating")),
         pages |-> IntOrZero(Column(row, "Number of Pages")),
         date |-> IF dt.ok THEN DisplayDate(dt.y, dt.m, dt.d) ELSE <<>>,
         date_iso |-> IF dt.ok THEN IsoDate(dt.y, dt.m, dt.d) ELSE Take(date_read_raw, 10),
         date_added |-> Take(Column(row, "Date Added"), 10),
         publisher |-> Strip(Column(row, "Publisher")),
         binding |-> Strip(Column(row, "Binding")),
         year_pub |-> Strip(Column(row, "Year Published")),
         review |-> Strip(StripTags(Column(row, "My Review"))),
         link |-> BookLink(book_id),
         image_url |-> <<>>,
         shelf |-> Strip(Column(row, "Exclusive Shelf"))]

\* books[book_id] = {...} for each record in turn: a later record of the same
\* id replaces the earlier one in its place
RECURSIVE DictOf(_, _)
DictOf(records, n) ==
    IF n = 0 THEN <<>>
    ELSE Put(DictOf(records, n - 1), records[n]["id"], records[n])

\* The bulk file: absent, or its rows
NoFile == [exists |-> FALSE, rows |-> <<>>]
CsvFile(rows) == [exists |-> TRUE, rows |-> rows]

load_csv(file) ==
    IF ~file.exists THEN <<>>
    ELSE DictOf([i \in 1..Len(file.rows) |-> ParseRow(file.rows[i])], Len(file.rows))

----------------------------------------------------------------------------
(* merge_rss_and_csv *)

\* b["title"].strip().lower()[:60]
TitleKey(title) == Take(Lower(Strip(title)), TitleKeyLen)

\* The mutant of TitleIndexUpTo in which the first record of a title key keeps it
RECURSIVE TitleIndexFirstWins(_, _)
TitleIndexFirstWins(csv, n) ==
    IF n = 0 THEN <<>>
    ELSE LET before == TitleIndexFirstWins(csv, n - 1)
             key == TitleKey(csv[n].val["title"])
         IN  IF key \in DOMAIN before THEN before ELSE Assign(before, key, csv[n].key)

\* The mutant of TitleIndexUpTo that indexes the records of the "read" shelf only
RECURSIVE TitleIndexReadShelf(_, _)
TitleIndexReadShelf(csv, n) ==
    IF n = 0 THEN <<>>
    ELSE IF csv[n].val["shelf"] = << "r", "e", "a", "d" >>
    THEN Assign(TitleIndexReadShelf(csv, n - 1), TitleKey(csv[n].val["title"]), csv[n].key)
    ELSE TitleIndexReadShelf(csv, n - 1)

\* csv_by_title after the first n entries of csv_books: a later entry with the
\* same title key overwrites an earlier one.
RECURSIVE TitleIndexUpTo(_, _)
TitleIndexUpTo(csv, n) ==
    IF n = 0 THEN <<>>
    ELSE Assign(TitleIndexUpTo(csv, n - 1), TitleKey(csv[n].val["title"]), csv[n].key)

TitleIndex(csv) == TitleIndexUpTo(csv, Len(csv))

\* The mutant of Baseline that seeds the result with every shelf
BaselineAllShelves(csv) == csv

\* "read"
ReadShelfName == << "r", "e", "a", "d" >>

\* merged after the seeding loop: a copy of every bulk record on the "read" shelf
IsReadShelf(e) == e.val["shelf"] = ReadShelfName

Baseline(csv) == SelectSeq(csv, IsReadShelf)

\* book_id of a feed record: its id or, when that is 0, the title index's
ResolveId(b, index) ==
    IF b["id"] # 0 THEN b["id"] ELSE Get(index, TitleKey(b["title"]), 0)

\* if book_id and book_id in merged
Matches(m, book_id) == book_id # 0 /\ HasKey(m, book_id)

\* The mutants of Overlay: without merged[book_id]["id"] = book_id, without the
\* pages rule, and with >= for > in the review rule
OverlayKeepsFeedId(entry, b, book_id) ==
    LET csv_pages == Get(entry, "pages", 0)
        csv_review == Get(entry, "review", <<>>)
        updated == Update(entry, b)
        paged == IF Get(b, "pages", 0) = 0 /\ csv_pages # 0
                 THEN Assign(updated, "pages", csv_pages)
                 ELSE updated
    IN  IF Len(csv_review) > Len(Get(b, "review", <<>>))
        THEN Assign(paged, "review", csv_review)
        ELSE paged

OverlayFeedPages(entry, b, book_id) ==
    LET csv_review == Get(entry, "review", <<>>)
        updated == Assign(Update(entry, b), "id", book_id)
    IN  IF Len(csv_review) > Len(Get(b, "review", <<>>))
        THEN Assign(updated, "review", csv_review)
        ELSE updated

OverlayTieToBulk(entry, b, book_id) ==
    LET csv_pages == Get(entry, "pages", 0)
        csv_review == Get(entry, "review", <<>>)
        updated == Assign(Update(entry, b), "id", book_id)
        paged == IF Get(b, "pages", 0) = 0 /\ csv_pages # 0
                 THEN Assign(updated, "pages", csv_pages)
                 ELSE updated
    IN  IF Len(csv_review) >= Len(Get(b, "review", <<>>))
        THEN Assign(paged, "review", csv_review)
        ELSE paged

\* The mutant of Overlay without the review rule
OverlayFeedReview(entry, b, book_id) ==
    LET csv_pages == Get(entry, "pages", 0)
        updated == Assign(Update(entry, b), "id", book_id)
    IN  IF Get(b, "pages", 0) = 0 /\ csv_pages # 0
        THEN Assign(updated, "pages", csv_pages)
        ELSE updated

\* The body of the if: merged[book_id] after the feed record b is laid over it
Overlay(entry, b, book_id) ==
    LET csv_pages == Get(entry, "pages", 0)
        csv_review == Get(entry, "review", <<>>)
        updated == Assign(Update(entry, b), "id", book_id)
        paged == IF Get(b, "pages", 0) = 0 /\ csv_pages # 0
                 THEN Assign(updated, "pages", csv_pages)
                 ELSE updated
    IN  IF Len(csv_review) > Len(Get(b, "review", <<>>))
        THEN Assign(paged, "review", csv_review)
        ELSE paged

\* The mutant of MergeIter that inserts a feed record whose id is not in merged
MergeIterAddsNew(m, b, index) ==
    LET book_id == ResolveId(b, index)
    IN  IF Matches(m, book_id)
        THEN Put(m, book_id, Overlay(Lookup(m, book_id), b, book_id))
        ELSE IF book_id # 0 THEN Put(m, book_id, b) ELSE m

\* One iteration of the overlay loop
MergeIter(m, b, index) ==
    LET book_id == ResolveId(b, index)
    IN  IF Matches(m, book_id)
        THEN Put(m, book_id, Overlay(Lookup(m, book_id), b, book_id))
        ELSE m

\* The sort key, b.get("date_iso", "")
DateKey(b) == Get(b, "date_iso", <<>>)

\* The mutant of InsertByDate that sorts without reverse=True
InsertByDateAscending(sorted, b) ==
    LET n == Cardinality({i \in 1..Len(sorted) : ~StrLess(DateKey(b), DateKey(sorted[i]))})
    IN  SubSeq(sorted, 1, n) \o <<b>> \o SubSeq(sorted, n + 1, Len(sorted))

\* list.sort(key=..., reverse=True): descending and stable, so a record goes
\* behind every record whose key is not smaller than its own.
InsertByDate(sorted, b) ==
    LET n == Cardinality({i \in 1..Len(sorted) : ~StrLess(DateKey(sorted[i]), DateKey(b))})
    IN  SubSeq(sorted, 1, n) \o <<b>> \o SubSeq(sorted, n + 1, Len(sorted))

RECURSIVE SortUpTo(_, _)
SortUpTo(list, n) ==
    IF n = 0 THEN <<>> ELSE InsertByDate(SortUpTo(list, n - 1), list[n])

SortByDate(list) == SortUpTo(list, Len(list))

RECURSIVE MergeLoop(_, _, _, _)
MergeLoop(m, rss, index, n) ==
    IF n = 0 THEN m ELSE MergeIter(MergeLoop(m, rss, index, n - 1), rss[n], index)

\* The function as a whole
merge_rss_and_csv(rss, csv) ==
    SortByDate(Values(MergeLoop(Baseline(csv), rss, TitleIndex(csv), Len(rss))))

----------------------------------------------------------------------------
(* The records the merge is run on *)

ToReadShelfName == << "t", "o", "-", "r", "e", "a", "d" >>

Dune == << "D", "u", "n", "e" >>
DuneLower == << "d", "u", "n", "e" >>
DunePadded == << " ", "D", "U", "N", "E", " " >>
Emma == << "E", "m", "m", "a" >>
Nemo == << "N", "e", "m", "o" >>
Foo == << "F", "o", "o" >>

\* Titles longer than a title key: Long1 and Long2 differ in character 61 only,
\* Long3 differs from both in character 60.
Pad == [i \in 1..(TitleKeyLen - 1) |-> "x"]
Long1 == Pad \o << "a", "b" >>
Long2 == Pad \o << "a", "c" >>
Long3 == Pad \o << "b" >>

D2022 == << "2", "0", "2", "2", "-", "1", "1", "-", "3", "0" >>
D2023 == << "2", "0", "2", "3", "-", "0", "5", "-", "0", "1" >>
D2024 == << "2", "0", "2", "4", "-", "0", "1", "-", "0", "1" >>

Img == << "h", "t", "t", "p", ":", "/", "/", "x", "/", "i", "m", "g", ".", "j", "p", "g" >>
NoPhoto == << "h", "t", "t", "p", ":", "/", "/", "x", "/", "n", "o", "p", "h", "o", "t", "o" >>

\* A record with the sixteen keys parse_rss gives every feed record
FeedBook(id, title, pages, review, date_iso, image_url) ==
    [id |-> id, title |-> title, author |-> << "f" >>, isbn |-> <<>>, rating |-> 4,
     avg_rating |-> Float(400), pages |-> pages, date |-> date_iso, date_iso |-> date_iso,
     date_added |-> D2024, publisher |-> <<>>, binding |-> <<>>, year_pub |-> <<>>,
     review |-> review, link |-> BookLink(id), image_url |-> image_url]

\* A record with the seventeen keys load_csv gives every bulk record
BulkBook(id, title, shelf, pages, review, date_iso) ==
    [id |-> id, title |-> title, author |-> << "b" >>, isbn |-> <<>>, rating |-> 3,
     avg_rating |-> Float(300), pages |-> pages, date |-> date_iso, date_iso |-> date_iso,
     date_added |-> D2022, publisher |-> << "p" >>, binding |-> <<>>,
     year_pub |-> <<>>, review |-> review, link |-> BookLink(id),
     image_url |-> <<>>, shelf |-> shelf]

FeedBooks ==
    { FeedBook(1, Dune, 0, <<>>, D2024, Img),
      FeedBook(1, Dune, 250, << "g", "o", "o", "d" >>, <<>>, NoPhoto),
      FeedBook(0, DunePadded, 0, << "f", "e", "d" >>, D2023, Img),
      FeedBook(0, Long2, 120, <<>>, D2022, Img),
      FeedBook(0, Nemo, 10, << "n" >>, D2024, Img),
      FeedBook(7, Emma, 10, << "n" >>, D2024, Img),
      FeedBook(2, Emma, 0, << "e" >>, D2023, NoPhoto),
      [id |-> 1, pages |-> 0, date_iso |-> D2024, image_url |-> Img] }

BulkBooks ==
    { BulkBook(1, Dune, ReadShelfName, 320, << "a", "b", "c" >>, D2023),
      BulkBook(2, DuneLower, ToReadShelfName, 0, <<>>, <<>>),
      BulkBook(2, Emma, ReadShelfName, 0, <<>>, D2024),
      BulkBook(3, Long1, ReadShelfName, 100, << "a" >>, <<>>),
      BulkBook(3, Dune, ReadShelfName, 0, << "a", "b", "c", "d", "e" >>, D2022),
      BulkBook(0, Nemo, ReadShelfName, 50, <<>>, D2022),
      [id |-> 1, title |-> Foo, pages |-> 100, shelf |-> ReadShelfName] }

\* The sequences over S of length at most n
SeqsUpTo(S, n) == UNION {[1..k -> S] : k \in 0..n}

FeedLists == SeqsUpTo(FeedBooks, MaxFeed)

BulkDicts ==
    {DictOf(rs, Len(rs)) : rs \in {r \in SeqsUpTo(BulkBooks, MaxBulk) :
        \A i, j \in 1..Len(r) : i # j => r[i]["id"] # r[j]["id"]}}

----------------------------------------------------------------------------
(* cover_filename, download_cover and ensure_covers *)

\* len(data) < 1000 in download_cover, st_size > 1000 in ensure_covers
MinCoverBytes == 1000

DotJpg == << ".", "j", "p", "g" >>
CoversDir == << "c", "o", "v", "e", "r", "s", "/" >>
NoPhotoMark == << "n", "o", "p", "h", "o", "t", "o" >>
OpenLibrary ==
    << "h", "t", "t", "p", "s", ":", "/", "/", "c", "o", "v", "e", "r", "s", ".", "o",
       "p", "e", "n", "l", "i", "b", "r", "a", "r", "y", ".", "o", "r", "g", "/", "b",
       "/", "i", "s", "b", "n", "/" >>

\* The mutant of cover_filename that prefers the ISBN
CoverFilenameIsbnFirst(book_id, isbn) ==
    LET key == IF isbn # <<>> THEN isbn ELSE IF book_id # 0 THEN IntToStr(book_id) ELSE <<>>
    IN  IF key # <<>> THEN key \o DotJpg ELSE <<>>

\* The name of a record's cover file; <<>> is None
cover_filename(book_id, isbn) ==
    LET key == IF book_id # 0 THEN IntToStr(book_id) ELSE isbn
    IN  IF key # <<>> THEN key \o DotJpg ELSE <<>>

\* What the network answers to a GET: no answer at all (ok = FALSE: an error or
\* a timeout) or a body of `size` bytes.  A network is a function from URLs to
\* answers; a URL outside its domain does not answer.
NoAnswer == [ok |-> FALSE, size |-> 0]
Body(size) == [ok |-> TRUE, size |-> size]
Answer(net, url) == IF url \in DOMAIN net THEN net[url] ELSE NoAnswer

\* download_cover asks the network unless the url is empty or a "nophoto" one
Requests(url) == url # <<>> /\ ~Contains(url, NoPhotoMark)

\* The mutant of download_cover that takes a body of any size
DownloadOfAnySize(url, net) == Requests(url) /\ Answer(net, url).ok

\* download_cover returns True (and has written the body to dest_path)
download_cover(url, net) ==
    /\ Requests(url)
    /\ Answer(net, url).ok
    /\ ~(Answer(net, url).size < MinCoverBytes)

\* The mutant of Sources that asks for the medium cover before the large one
SourcesMediumFirst(b) ==
    (IF Get(b, "image_url", <<>>) # <<>> /\ ~Contains(Get(b, "image_url", <<>>), NoPhotoMark)
     THEN << b["image_url"] >> ELSE <<>>)
    \o (IF Get(b, "isbn", <<>>) # <<>>
        THEN << OpenLibrary \o b["isbn"] \o << "-", "M" >> \o DotJpg,
                OpenLibrary \o b["isbn"] \o << "-", "L" >> \o DotJpg >>
        ELSE <<>>)

\* The sources ensure_covers tries for a record, in order
Sources(b) ==
    (IF Get(b, "image_url", <<>>) # <<>> /\ ~Contains(Get(b, "image_url", <<>>), NoPhotoMark)
     THEN << b["image_url"] >> ELSE <<>>)
    \o (IF Get(b, "isbn", <<>>) # <<>>
        THEN << OpenLibrary \o b["isbn"] \o << "-", "L" >> \o DotJpg,
                OpenLibrary \o b["isbn"] \o << "-", "M" >> \o DotJpg >>
        ELSE <<>>)

\* for url in sources, from source i on: st is the state of ensure_covers
\* (cover_map, the files of the cover directory, what it has done so far, and
\* what it has printed for each record: a cover, or "no cover")
RECURSIVE TrySources(_, _, _, _, _)
TrySources(st, sources, i, fname, net) ==
    IF i > Len(sources) THEN [st EXCEPT !.outcomes = Append(@, "no cover")]
    ELSE LET url == sources[i]
             asked == IF Requests(url)
                      THEN [st EXCEPT !.effects = Append(@, [op |-> "get", what |-> url])]
                      ELSE st
         IN  IF download_cover(url, net)
             THEN [asked EXCEPT !.files = Assign(@, fname, Answer(net, url).size),
                                !.effects = Append(@, [op |-> "save", what |-> fname]),
                                !.cover_map = Assign(@, fname, CoversDir \o fname),
                                !.outcomes = Append(@, "cover")]
             ELSE TrySources(asked, sources, i + 1, fname, net)

\* The mutant of CacheValid that asks for ten times the size
CacheValidTenfold(dir, fname) == fname \in DOMAIN dir /\ dir[fname] > 10 * MinCoverBytes

\* dest.exists() and dest.stat().st_size > 1000
CacheValid(dir, fname) == fname \in DOMAIN dir /\ dir[fname] > MinCoverBytes

\* The mutant of EnsureCover that sets the map entry whether or not a source
\* was downloaded
EnsureCoverMapsAnyway(st, b, net) ==
    LET fname == cover_filename(b["id"], Get(b, "isbn", <<>>))
    IN  IF fname = <<>> THEN [st EXCEPT !.outcomes = Append(@, "skipped")]
        ELSE IF CacheValid(st.files, fname)
        THEN [st EXCEPT !.cover_map = Assign(@, fname, CoversDir \o fname),
                        !.outcomes = Append(@, "cached")]
        ELSE LET tried == TrySources(st, Sources(b), 1, fname, net)
             IN  [tried EXCEPT !.cover_map = Assign(@, fname, CoversDir \o fname),
                               !.effects = Append(@, [op |-> "sleep", what |-> fname])]

\* The mutant of EnsureCover that sleeps only when no cover was downloaded
EnsureCoverSleepsOnFailure(st, b, net) ==
    LET fname == cover_filename(b["id"], Get(b, "isbn", <<>>))
    IN  IF fname = <<>> THEN [st EXCEPT !.outcomes = Append(@, "skipped")]
        ELSE IF CacheValid(st.files, fname)
        THEN [st EXCEPT !.cover_map = Assign(@, fname, CoversDir \o fname),
                        !.outcomes = Append(@, "cached")]
        ELSE LET tried == TrySources(st, Sources(b), 1, fname, net)
             IN  IF fname \in DOMAIN tried.cover_map THEN tried
                 ELSE [tried EXCEPT !.effects = Append(@, [op |-> "sleep", what |-> fname])]

\* The body of the loop of ensure_covers for the record b
EnsureCover(st, b, net) ==
    LET fname == cover_filename(b["id"], Get(b, "isbn", <<>>))
    IN  IF fname = <<>> THEN [st EXCEPT !.outcomes = Append(@, "skipped")]
        ELSE IF CacheValid(st.files, fname)
        THEN [st EXCEPT !.cover_map = Assign(@, fname, CoversDir \o fname),
                        !.outcomes = Append(@, "cached")]
        ELSE LET tried == TrySources(st, Sources(b), 1, fname, net)
             IN  [tried EXCEPT !.effects = Append(@, [op |-> "sleep", what |-> fname])]

RECURSIVE EnsureUpTo(_, _, _, _)
EnsureUpTo(st, books, n, net) ==
    IF n = 0 THEN st ELSE EnsureCover(EnsureUpTo(st, books, n - 1, net), books[n], net)

\* ensure_covers(books) run on the cover directory `disk` and the network `net`
ensure_covers(books, disk, net, done) ==
    EnsureUpTo([cover_map |-> <<>>, files |-> disk, effects |-> done, outcomes |-> <<>>],
               books, Len(books), net)

\* The mutant of LocalImage that points every record with a cache key at the
\* cover directory
LocalImageForAll(b, map) ==
    LET fname == cover_filename(b["id"], Get(b, "isbn", <<>>))
    IN  IF fname # <<>> THEN Assign(b, "image_url", CoversDir \o fname) ELSE b

\* b["image_url"] = cover_map[fname] for the records whose file name is mapped
LocalImage(b, map) ==
    LET fname == cover_filename(b["id"], Get(b, "isbn", <<>>))
    IN  IF fname # <<>> /\ fname \in DOMAIN map THEN Assign(b, "image_url", map[fname]) ELSE b

LocalImages(books, map) == [i \in 1..Len(books) |-> LocalImage(books[i], map)]

----------------------------------------------------------------------------
(* process_data, as far as the records go *)

\* b.get("image_url")
HasImage(b) == Get(b, "image_url", <<>>) # <<>>

\* [b for b in books if b["id"] not in seen][:room], seen the ids of chosen
Extra(books, chosen, room) ==
    Take(SelectSeq(books, LAMBDA b : \A i \in 1..Len(chosen) : chosen[i]["id"] # b["id"]), room)

\* sorted([b for b in read if b.get("image_url")], key=date_iso, reverse=True)[:9],
\* filled up to 9 with the records whose id is not among them
Recent(read) ==
    LET recent == Take(SortByDate(SelectSeq(read, HasImage)), 9)
    IN  IF Len(recent) < 9 THEN recent \o Extra(read, recent, 9 - Len(recent)) ELSE recent

\* The same for the five-star records: at most 12, filled up when fewer than 6
Top5(read) ==
    LET five == SelectSeq(read, LAMBDA b : b["rating"] = 5)
        top5 == Take(SortByDate(SelectSeq(five, HasImage)), 12)
    IN  IF Len(top5) < 6 THEN top5 \o Extra(five, top5, 12 - Len(top5)) ELSE top5

\* The loop over top5 + recent + read_books: a record with an image whose id
\* has not been seen is appended, until there are 24
RECURSIVE ShelfUpTo(_, _)
ShelfUpTo(books, n) ==
    IF n = 0 THEN <<>>
    ELSE LET shelf == ShelfUpTo(books, n - 1)
             b == books[n]
         IN  IF /\ Len(shelf) < 24
                /\ HasImage(b)
                /\ \A i \in 1..Len(shelf) : shelf[i]["id"] # b["id"]
             THEN Append(shelf, b)
             ELSE shelf

process_data(read, current, toread) ==
    LET recent == Recent(read)
        top5 == Top5(read)
        all == top5 \o recent \o read
    IN  [total_read |-> Len(read), to_read |-> Len(toread),
         recent |-> recent, top5 |-> top5, shelf |-> ShelfUpTo(all, Len(all)),
         current |-> Take(current, 3), toread |-> Take(toread, 15), all_books |-> read]

----------------------------------------------------------------------------
(* The world main runs in: the feeds, the bulk file, the cover directory and
   the network *)

\* The items of the feeds
Item1 ==
    [link |-> << "h", "t", "t", "p", "s", ":", "/", "/", "w", "w", "w", ".",
                 "g", "o", "o", "d", "r", "e", "a", "d", "s", ".", "c", "o",
                 "m", "/", "b", "o", "o", "k", "/", "s", "h", "o", "w", "/",
                 "1", "?", "u", "t", "m", "=", "r", "s", "s" >>,
     title |-> << "D", "u", "n", "e" >>,
     author_name |-> << "H", "e", "r", "b", "e", "r", "t" >>,
     isbn13 |-> << "9", "7", "8", "0", "4", "4", "1", "0", "1", "3", "5", "9", "3" >>,
     user_rating |-> << "5" >>,
     num_pages |-> <<>>,
     average_rating |-> << "4", ".", "2", "5" >>,
     user_read_at |-> << "M", "o", "n", ",", " ", "0", "1", " ", "J", "a", "n",
                         " ", "2", "0", "2", "4", " ", "0", "0", ":", "0", "0",
                         ":", "0", "0", " ", "-", "0", "8", "0", "0" >>,
     user_review |-> << "<", "b", ">", "o", "k", "<", "/", "b", ">" >>,
     book_large_image_url |-> << "h", "t", "t", "p", ":", "/", "/", "x", "/", "i", "m", "g", ".", "j", "p", "g" >>]

Item2 ==
    [link |-> <<>>,
     title |-> << " ", "D", "U", "N", "E", " " >>,
     isbn |-> << "1", "2", "3" >>,
     user_rating |-> << "x" >>,
     num_pages |-> << "4", "1", "2" >>,
     pubDate |-> << "y", "e", "s", "t", "e", "r", "d", "a", "y", " ", "n", "o", "o", "n" >>,
     book_medium_image_url |-> << "h", "t", "t", "p", ":", "/", "/", "x", "/", "n", "o", "p", "h", "o", "t", "o", ".", "p", "n", "g" >>]

Item3 ==
    [link |-> << "/", "b", "o", "o", "k", "/", "s", "h", "o", "w", "/", "7" >>,
     title |-> << "E", "m", "m", "a" >>,
     user_rating |-> << "3" >>,
     user_read_at |-> << "T", "u", "e", ",", " ", "2", " ", "M", "a", "y", " ",
                         "2", "0", "2", "3", " ", "1", "0", ":", "3", "0", ":",
                         "0", "0", " ", "-", "0", "7", "0", "0" >>]

RawItems == {Item1, Item2, Item3}

\* The rows of the bulk file
Row1 ==
    "Book Id" :> << "1" >>
    @@ "Title" :> << "D", "u", "n", "e" >>
    @@ "Author" :> << "H", "e", "r", "b", "e", "r", "t" >>
    @@ "ISBN13" :> << "=", "\"", "9", "7", "8", "0", "4", "4", "1", "0", "1", "3", "5", "9", "3", "\"" >>
    @@ "My Rating" :> << "4" >>
    @@ "Number of Pages" :> << "3", "2", "0" >>
    @@ "Date Read" :> << "2", "0", "2", "3", "/", "0", "5", "/", "0", "1" >>
    @@ "My Review" :> << "f", "i", "n", "e", "<", "b", "r", "/", ">", "b", "o", "o", "k" >>
    @@ "Exclusive Shelf" :> << "r", "e", "a", "d" >>

Row2 ==
    "Book Id" :> << "2" >>
    @@ "Title" :> << "E", "m", "m", "a" >>
    @@ "Date Read" :> <<>>
    @@ "Exclusive Shelf" :> << "t", "o", "-", "r", "e", "a", "d" >>

Row3 ==
    "Book Id" :> << "n", "/", "a" >>
    @@ "Title" :> << "N", "e", "m", "o" >>
    @@ "Number of Pages" :> << "a", "b", "c" >>
    @@ "Date Read" :> << "2", "0", "2", "2", "-", "1", "1", "-", "3", "0" >>
    @@ "Exclusive Shelf" :> << " ", "r", "e", "a", "d" >>

RawRows == {Row1, Row2, Row3}

\* What the server may hold on the three shelves.  The "read" feed fails,
\* is garbage, is a page without items, or one page of up to MaxItems items;
\* the "currently-reading" feed may fill a page of ten and go on to a second.
ReadFeeds ==
    { << FailedPage >>, << GarbagePage >>, << XmlPage(<<>>) >> }
    \cup {<< XmlPage(items) >> : items \in SeqsUpTo(RawItems, MaxItems) \ {<<>>}}

CurrentFeeds ==
    { << EmptyBody >>,
      << XmlPage(<< Item3 >>) >>,
      << XmlPage([i \in 1..CurrentPerPage |-> Item3]), XmlPage(<< Item1 >>) >> }

ToReadFeeds == { << XmlPage(<<>>) >>, << XmlPage(<< Item2 >>) >> }

CsvFiles == {NoFile} \cup {CsvFile(rows) : rows \in SeqsUpTo(RawRows, MaxRows)}

File1 == << "1" >> \o DotJpg
ImgUrl == << "h", "t", "t", "p", ":", "/", "/", "x", "/", "i", "m", "g", ".", "j", "p", "g" >>
LargeUrl == OpenLibrary \o << "9", "7", "8", "0", "4", "4", "1", "0", "1", "3", "5", "9", "3" >> \o << "-", "L" >> \o DotJpg
MediumUrl == OpenLibrary \o << "9", "7", "8", "0", "4", "4", "1", "0", "1", "3", "5", "9", "3" >> \o << "-", "M" >> \o DotJpg

\* The cover directory before the run: empty, or with a cover of book 1
Disks == { <<>>, File1 :> 2000 }

\* The networks: nothing answers; the record's own image is a placeholder and
\* the large cover by ISBN is good; only the medium cover by ISBN answers; the
\* record's own image is good.
Networks ==
    { <<>>,
      ImgUrl :> Body(500) @@ LargeUrl :> Body(1000),
      MediumUrl :> Body(2000),
      ImgUrl :> Body(2000) }

----------------------------------------------------------------------------
(* main *)

NotWritten == [written |-> FALSE]
\* The exit status of a run that has not ended: no process exits with it
Running == 0 - 1

Did(op, what) == [op |-> op, what |-> what]

\* The values of main's variables while merge_rss_and_csv alone is run
\* The values of the variables of fetch_rss while it is not run on its own
FetchIdle ==
    /\ server = <<>> /\ page_size = 0 /\ next_page = 0
    /\ all_xml_pages = <<>> /\ requested = <<>> /\ fetch_log = <<>> /\ fpc = "idle"

\* The values of the variables of ensure_covers while it is not run on its own
CoverIdle ==
    /\ all_books = <<>> /\ network = <<>> /\ cidx = 0 /\ outcomes = <<>>
    /\ calls = 0 /\ first_call = <<>> /\ cpc = "idle"

\* The values of the variables of the parsers while they are not run on their own
ParseIdle ==
    /\ raw_item = <<>> /\ raw_row = <<>> /\ feed_recs = <<>> /\ bulk_recs = <<>>
    /\ reconciled = <<>> /\ ppc = "idle"

UnitsIdle == FetchIdle /\ CoverIdle /\ ParseIdle

MainIdle ==
    /\ pc = "idle"
    /\ read_xml = <<>> /\ current_xml = <<>> /\ toread_xml = <<>>
    /\ read_books = <<>> /\ current_books = <<>> /\ toread_books = <<>>
    /\ cover_map = <<>> /\ files = <<>> /\ effects = <<>>
    /\ output = NotWritten
    /\ exit_code = Running

Init ==
    /\ pc = "start"
    /\ read_xml = <<>> /\ current_xml = <<>> /\ toread_xml = <<>>
    /\ read_books = <<>> /\ current_books = <<>> /\ toread_books = <<>>
    /\ csv_books = <<>>
    /\ cover_map = <<>> /\ files = <<>> /\ effects = <<>>
    /\ output = NotWritten
    /\ exit_code = Running
    /\ rss_books = <<>> /\ csv_by_title = <<>> /\ merged = <<>> /\ idx = 0
    /\ result = <<>> /\ mpc = "idle"
    /\ UnitsIdle

\* read_xml = fetch_rss("read", per_page=200)
FetchRead ==
    /\ pc = "start"
    /\ \E feed \in ReadFeeds : read_xml' = fetch_rss(feed, ReadPerPage)
    /\ effects' = Append(effects, Did("fetch", "read"))
    /\ pc' = "fetch_current"
    /\ UNCHANGED <<current_xml, toread_xml, read_books, current_books, toread_books,
                   csv_books, cover_map, files, output, exit_code, mergeVars, unitVars>>

\* current_xml = fetch_rss("currently-reading", per_page=10)
FetchCurrent ==
    /\ pc = "fetch_current"
    /\ \E feed \in CurrentFeeds : current_xml' = fetch_rss(feed, CurrentPerPage)
    /\ effects' = Append(effects, Did("fetch", "currently-reading"))
    /\ pc' = "fetch_toread"
    /\ UNCHANGED <<read_xml, toread_xml, read_books, current_books, toread_books,
                   csv_books, cover_map, files, output, exit_code, mergeVars, unitVars>>

\* toread_xml = fetch_rss("to-read", per_page=50)
FetchToRead ==
    /\ pc = "fetch_toread"
    /\ \E feed \in ToReadFeeds : toread_xml' = fetch_rss(feed, ToReadPerPage)
    /\ effects' = Append(effects, Did("fetch", "to-read"))
    /\ pc' = "parse"
    /\ UNCHANGED <<read_xml, current_xml, read_books, current_books, toread_books,
                   csv_books, cover_map, files, output, exit_code, mergeVars, unitVars>>

\* The three parse_rss calls
ParseFeeds ==
    /\ pc = "parse"
    /\ read_books' = parse_rss(read_xml)
    /\ current_books' = parse_rss(current_xml)
    /\ toread_books' = parse_rss(toread_xml)
    /\ pc' = "check"
    /\ UNCHANGED <<read_xml, current_xml, toread_xml, csv_books, cover_map, files,
                   effects, output, exit_code, mergeVars, unitVars>>

\* The mutant of NoBooksFetched that wants records on every shelf
NoBooksOnSomeShelf == read_books = <<>> \/ current_books = <<>> \/ toread_books = <<>>

\* if not read_books
NoBooksFetched == read_books = <<>>

\* if not read_books: sys.exit(1)
CheckBooks ==
    /\ pc = "check"
    /\ IF NoBooksFetched
       THEN pc' = "exit" /\ exit_code' = 1
       ELSE pc' = "load" /\ exit_code' = exit_code
    /\ UNCHANGED <<read_xml, current_xml, toread_xml, read_books, current_books,
                   toread_books, csv_books, cover_map, files, effects, output, mergeVars, unitVars>>

\* csv_books = load_csv()
LoadCsv ==
    /\ pc = "load"
    /\ \E file \in CsvFiles : csv_books' = load_csv(file)
    /\ effects' = Append(effects, Did("csv", "load"))
    /\ pc' = "merge"
    /\ UNCHANGED <<read_xml, current_xml, toread_xml, read_books, current_books,
                   toread_books, cover_map, files, output, exit_code, mergeVars, unitVars>>

\* The mutant of Reconciled that merges whatever the bulk mapping holds
AlwaysMerged(rss, csv) == merge_rss_and_csv(rss, csv)

\* read_books after "if csv_books: read_books = merge_rss_and_csv(...)"
Reconciled(rss, csv) == IF csv # <<>> THEN merge_rss_and_csv(rss, csv) ELSE rss

Reconcile ==
    /\ pc = "merge"
    /\ read_books' = Reconciled(read_books, csv_books)
    /\ pc' = "covers"
    /\ UNCHANGED <<read_xml, current_xml, toread_xml, current_books, toread_books,
                   csv_books, cover_map, files, effects, output, exit_code, mergeVars, unitVars>>

\* all_books = read_books + current_books + toread_books
AllBooks == read_books \o current_books \o toread_books

\* cover_map = ensure_covers(all_books)
EnsureCovers ==
    /\ pc = "covers"
    /\ \E disk \in Disks, net \in Networks :
        LET st == ensure_covers(AllBooks, disk, net, effects)
        IN  /\ cover_map' = st.cover_map
            /\ files' = st.files
            /\ effects' = st.effects
    /\ pc' = "rewrite"
    /\ UNCHANGED <<read_xml, current_xml, toread_xml, read_books, current_books,
                   toread_books, csv_books, output, exit_code, mergeVars, unitVars>>

\* for b in all_books: ... b["image_url"] = cover_map[fname]
RewriteImages ==
    /\ pc = "rewrite"
    /\ read_books' = LocalImages(read_books, cover_map)
    /\ current_books' = LocalImages(current_books, cover_map)
    /\ toread_books' = LocalImages(toread_books, cover_map)
    /\ pc' = "process"
    /\ UNCHANGED <<read_xml, current_xml, toread_xml, csv_books, cover_map, files,
                   effects, output, exit_code, mergeVars, unitVars>>

\* process_data, generate_html and OUTPUT_FILE.write_text; main returns
WriteOutput ==
    /\ pc = "process"
    /\ output' = [written |-> TRUE,
                  data |-> process_data(read_books, current_books, toread_books)]
    /\ effects' = Append(effects, Did("write", "index.html"))
    /\ exit_code' = 0
    /\ pc' = "done"
    /\ UNCHANGED <<read_xml, current_xml, toread_xml, read_books, current_books,
                   toread_books, csv_books, cover_map, files, mergeVars, unitVars>>

Next ==
    \/ FetchRead \/ FetchCurrent \/ FetchToRead \/ ParseFeeds \/ CheckBooks
    \/ LoadCsv \/ Reconcile \/ EnsureCovers \/ RewriteImages \/ WriteOutput

Spec == Init /\ [][Next]_vars

----------------------------------------------------------------------------
(* One call of merge_rss_and_csv, the overlay loop an iteration at a time *)

MergeInit ==
    /\ rss_books \in FeedLists
    /\ csv_books \in BulkDicts
    /\ csv_by_title = <<>>
    /\ merged = <<>>
    /\ idx = 0
    /\ result = <<>>
    /\ mpc = "call"
    /\ MainIdle
    /\ UnitsIdle

\* The title index is built and the result is seeded with the read shelf
MergeSeed ==
    /\ mpc = "call"
    /\ csv_by_title' = TitleIndex(csv_books)
    /\ merged' = Baseline(csv_books)
    /\ mpc' = "loop"
    /\ UNCHANGED <<rss_books, csv_books, idx, result, mainVars, unitVars>>

\* for b in rss_books: the next feed record is laid over its entry, or skipped
MergeOverlay ==
    /\ mpc = "loop"
    /\ idx < Len(rss_books)
    /\ merged' = MergeIter(merged, rss_books[idx + 1], csv_by_title)
    /\ idx' = idx + 1
    /\ UNCHANGED <<rss_books, csv_books, csv_by_title, result, mpc, mainVars, unitVars>>

\* The loop is over: the values are sorted and returned
MergeReturn ==
    /\ mpc = "loop"
    /\ idx = Len(rss_books)
    /\ result' = SortByDate(Values(merged))
    /\ mpc' = "return"
    /\ UNCHANGED <<rss_books, csv_books, csv_by_title, merged, idx, mainVars, unitVars>>

MergeNext == MergeSeed \/ MergeOverlay \/ MergeReturn

SpecMerge == MergeInit /\ [][MergeNext]_vars

----------------------------------------------------------------------------
(* The claims about merge_rss_and_csv (checked under SpecMerge) *)

\* A step of the overlay loop, the feed record it consumes and the id the code
\* resolves that record to
OverlayStep == mpc = "loop" /\ idx' = idx + 1
StepBook == rss_books[idx + 1]
StepId == ResolveId(StepBook, csv_by_title)

\* The feed record the loop consumed last, and the id it was resolved to
LastBook == rss_books[idx]
LastId == ResolveId(LastBook, csv_by_title)
Overlaid == mpc = "loop" /\ idx >= 1 /\ Matches(merged, LastId)

\* The bulk records on the "read" shelf
ReadShelf == {csv_books[i].val : i \in {j \in 1..Len(csv_books) : csv_books[j].val["shelf"] = ReadShelfName}}

\* C1: the records of the list merge_rss_and_csv returns have pairwise distinct
\* ids, whatever the bulk mapping and the feed list hold.
C1_IdsDistinct ==
    mpc = "return" =>
        \A i, j \in 1..Len(result) : i # j => result[i]["id"] # result[j]["id"]

\* C1 witness: a call has returned two records or more after two feed records
\* were resolved to one id, one of them an id-0 record resolved by its title.
C1_Witness ==
    /\ mpc = "return"
    /\ Len(result) >= 2
    /\ \E i, j \in 1..Len(rss_books) :
        /\ i # j
        /\ rss_books[i]["id"] = 0
        /\ rss_books[j]["id"] # 0
        /\ ResolveId(rss_books[i], csv_by_title) = rss_books[j]["id"]
        /\ HasKey(merged, rss_books[j]["id"])

\* The feed record of this step has been merged into record k: the entry of k
\* has id k and the feed record's value for every other key of the feed record
\* (pages and review go by their own rules), and no other entry has changed.
MergedIntoEntry(k) ==
    /\ HasKey(merged, k)
    /\ HasKey(merged', k)
    /\ Lookup(merged', k)["id"] = k
    /\ \A f \in DOMAIN StepBook \ {"id", "pages", "review"} :
        Lookup(merged', k)[f] = StepBook[f]
    /\ Len(merged') = Len(merged)
    /\ \A i \in 1..Len(merged) : merged[i].key # k => merged'[i] = merged[i]

\* Bulk record i is on the read shelf and has the title key of the step's
\* feed record
ReadShelfTitleMatch(i) ==
    /\ csv_books[i].val["shelf"] = ReadShelfName
    /\ TitleKey(csv_books[i].val["title"]) = TitleKey(StepBook["title"])

NoTitleMatch ==
    \A i \in 1..Len(csv_books) :
        TitleKey(csv_books[i].val["title"]) # TitleKey(StepBook["title"])

\* C2 as claimed: an id-0 feed record whose title key is that of a read-shelf
\* bulk record with id k is merged into record k, and one whose title key is
\* no bulk record's changes nothing.
C2_AsClaimed ==
    [][ (OverlayStep /\ StepBook["id"] = 0) =>
        /\ \A i \in 1..Len(csv_books) :
            ReadShelfTitleMatch(i) => MergedIntoEntry(csv_books[i].key)
        /\ NoTitleMatch => merged' = merged ]_vars

\* C2: an id-0 feed record whose title key is that of a read-shelf bulk record
\* with a non-zero id k, no later bulk record of any shelf having the same title
\* key, is merged into record k, which keeps id k; an id-0 feed record whose
\* title key is no bulk record's changes no entry and adds none.
C2_TitleFallback ==
    [][ (OverlayStep /\ StepBook["id"] = 0) =>
        /\ \A i \in 1..Len(csv_books) :
            ( /\ ReadShelfTitleMatch(i)
              /\ csv_books[i].key # 0
              /\ \A j \in (i + 1)..Len(csv_books) :
                    TitleKey(csv_books[j].val["title"]) # TitleKey(StepBook["title"]) )
            => MergedIntoEntry(csv_books[i].key)
        /\ NoTitleMatch => merged' = merged ]_vars

\* C2 witness: the loop has consumed two id-0 feed records; the first was
\* merged by its title, written in another case and padded, into a bulk record
\* that now carries the feed's title and its own id, and the second, whose
\* title key no bulk record has, left the mapping as the first had left it.
C2_Witness ==
    /\ mpc = "loop"
    /\ idx = 2
    /\ rss_books[1]["id"] = 0
    /\ rss_books[2]["id"] = 0
    /\ LET k == ResolveId(rss_books[1], csv_by_title)
       IN  /\ Matches(merged, k)
           /\ Lookup(Baseline(csv_books), k)["title"] # rss_books[1]["title"]
           /\ Lookup(merged, k)["title"] = rss_books[1]["title"]
           /\ Lookup(merged, k)["id"] = k
    /\ \A i \in 1..Len(csv_books) :
        TitleKey(csv_books[i].val["title"]) # TitleKey(rss_books[2]["title"])
    /\ merged = MergeIter(Baseline(csv_books), rss_books[1], csv_by_title)

\* C3: the ids of the returned list are exactly the ids of the bulk records on
\* the "read" shelf, one record each: no read-shelf bulk record is lost and no
\* feed record is inserted.
C3_IdsAreReadShelf ==
    mpc = "return" =>
        /\ {result[i]["id"] : i \in 1..Len(result)} = {b["id"] : b \in ReadShelf}
        /\ Len(result) = Cardinality(ReadShelf)

\* C3 witness: a call has returned although a feed record carried an id that no
\* read-shelf bulk record has.
C3_Witness ==
    /\ mpc = "return"
    /\ result # <<>>
    /\ \E i \in 1..Len(rss_books) :
        /\ rss_books[i]["id"] # 0
        /\ rss_books[i]["id"] \notin {b["id"] : b \in ReadShelf}

\* C4: when a feed record whose pages is 0 or absent is laid over an entry
\* whose pages is not 0, the entry keeps its pages.
C4_PagesKept ==
    [][ (OverlayStep /\ Matches(merged, StepId)
            /\ Get(StepBook, "pages", 0) = 0
            /\ Get(Lookup(merged, StepId), "pages", 0) # 0)
        => Lookup(merged', StepId)["pages"] = Lookup(merged, StepId)["pages"] ]_vars

\* C4 witness: a feed record without pages has been laid over the bulk record
\* with 320 pages, which still has them.
C4_Witness ==
    /\ Overlaid
    /\ idx = 1
    /\ Get(LastBook, "pages", 0) = 0
    /\ Lookup(Baseline(csv_books), LastId)["pages"] = 320
    /\ Lookup(merged, LastId)["pages"] = 320

\* C5: when a feed record is laid over an entry, the entry's review becomes the
\* entry's old review if that is strictly longer than the feed record's, and
\* the feed record's otherwise; its length is the larger of the two lengths.
C5_LongerReview ==
    [][ (OverlayStep /\ Matches(merged, StepId)) =>
        LET old == Get(Lookup(merged, StepId), "review", <<>>)
            new == Get(StepBook, "review", <<>>)
            got == Get(Lookup(merged', StepId), "review", <<>>)
        IN  /\ got = IF Len(old) > Len(new) THEN old ELSE new
            /\ Len(got) >= Len(old) /\ Len(got) >= Len(new) ]_vars

\* C5 witness: a feed record has been laid over a bulk record whose review was
\* as long as its own but a different text, and the entry has the feed's.
C5_Witness ==
    /\ Overlaid
    /\ idx = 1
    /\ "review" \in DOMAIN LastBook
    /\ LastBook["review"] # <<>>
    /\ Len(Get(Lookup(Baseline(csv_books), LastId), "review", <<>>)) = Len(LastBook["review"])
    /\ Get(Lookup(Baseline(csv_books), LastId), "review", <<>>) # LastBook["review"]
    /\ Lookup(merged, LastId)["review"] = LastBook["review"]

\* C6: when a feed record matches an entry by id, the entry keeps that id,
\* takes date_iso and image_url from the feed record, keeps its own value for
\* every key the feed record does not have, and stays the one entry of that id;
\* every other entry is left as it was.
C6_OverlayById ==
    [][ (OverlayStep /\ StepBook["id"] # 0 /\ HasKey(merged, StepBook["id"])) =>
        LET k == StepBook["id"]
            old == Lookup(merged, k)
            new == Lookup(merged', k)
        IN  /\ new["id"] = k
            /\ \A f \in {"date_iso", "image_url"} \cap DOMAIN StepBook : new[f] = StepBook[f]
            /\ \A f \in DOMAIN old \ DOMAIN StepBook : f \in DOMAIN new /\ new[f] = old[f]
            /\ Cardinality({i \in 1..Len(merged') : merged'[i].key = k}) = 1
            /\ Len(merged') = Len(merged)
            /\ \A i \in 1..Len(merged) : merged[i].key # k => merged'[i] = merged[i] ]_vars

\* C6 witness: the scenario of the specification.  The bulk record {id 1, title
\* Foo, pages 100, shelf read} has been overlaid by the feed record {id 1,
\* pages 0, date_iso, image_url} and is {id 1, title Foo, pages 100, date_iso,
\* image_url} with its shelf.
C6_Witness ==
    /\ Overlaid
    /\ idx = 1
    /\ LastBook = [id |-> 1, pages |-> 0, date_iso |-> D2024, image_url |-> Img]
    /\ Lookup(Baseline(csv_books), 1) = [id |-> 1, title |-> Foo, pages |-> 100, shelf |-> ReadShelfName]
    /\ Lookup(merged, 1) = [id |-> 1, title |-> Foo, pages |-> 100, shelf |-> ReadShelfName,
                            date_iso |-> D2024, image_url |-> Img]

\* C7: the returned list is in descending order of date_iso: no record has a
\* smaller date_iso than the record after it, and every record with an empty
\* date_iso comes after every record with a non-empty one.
C7_SortedByDate ==
    mpc = "return" =>
        /\ \A i \in 1..(Len(result) - 1) :
            ~StrLess(DateKey(result[i]), DateKey(result[i + 1]))
        /\ \A i, j \in 1..Len(result) :
            (DateKey(result[i]) = <<>> /\ DateKey(result[j]) # <<>>) => j < i

\* C7 witness: a call has returned three records in another order than the
\* mapping held them, one of them without a date.
C7_Witness ==
    /\ mpc = "return"
    /\ Len(result) = 3
    /\ result # Values(merged)
    /\ \E i \in 1..3 : DateKey(result[i]) = <<>>
    /\ \E i \in 1..3 : DateKey(result[i]) # <<>>

\* C8: with an empty feed list the call returns exactly the read-shelf bulk
\* records, each equal to the bulk mapping's record, in descending order of
\* date_iso.
C8_EmptyFeed ==
    (mpc = "return" /\ rss_books = <<>>) =>
        /\ {result[i] : i \in 1..Len(result)} = ReadShelf
        /\ Len(result) = Cardinality(ReadShelf)
        /\ \A i \in 1..(Len(result) - 1) :
            ~StrLess(DateKey(result[i]), DateKey(result[i + 1]))

\* C8 witness: a call with an empty feed list has returned two records or more
\* from a bulk mapping that also holds a record of another shelf.
C8_Witness ==
    /\ mpc = "return"
    /\ rss_books = <<>>
    /\ Len(result) >= 2
    /\ Len(csv_books) > Len(result)

----------------------------------------------------------------------------
(* One call of fetch_rss, a turn of its loop at a time *)

\* The merge and main are not run
MergeIdle ==
    /\ rss_books = <<>> /\ csv_books = <<>> /\ csv_by_title = <<>> /\ merged = <<>>
    /\ idx = 0 /\ result = <<>> /\ mpc = "idle"

\* What the server may answer to the request of one page of at most n items
Answers(n) ==
    {FailedPage, EmptyBody, GarbagePage} \cup {XmlPage([i \in 1..k |-> Item3]) : k \in 0..n}

\* The shelves: up to MaxPages answers, of pages of at most n items
Servers(n) == SeqsUpTo(Answers(n), MaxPages)

FetchInit ==
    /\ page_size \in 1..MaxPageSize
    /\ server \in Servers(page_size)
    /\ next_page = 1
    /\ all_xml_pages = <<>>
    /\ requested = <<>>
    /\ fetch_log = <<>>
    /\ fpc = "loop"
    /\ MergeIdle
    /\ MainIdle
    /\ CoverIdle
    /\ ParseIdle

\* fetch_rss_page(shelf, page, per_page) is called
Request(page) == [op |-> "request", page |-> page, secs |-> 0]

\* The mutant of Pause that does not sleep
NoPause(page) == <<>>

\* time.sleep(1) at the end of the turn that collected the page
Pause(page) == << [op |-> "sleep", page |-> page, secs |-> 1] >>

\* One turn of "while True": the page is requested; a page that cannot be used
\* ends the loop, any other is collected, and a page that is not full ends the
\* loop as well; after a full page the loop sleeps and goes on
FetchPage ==
    /\ fpc = "loop"
    /\ requested' = Append(requested, next_page)
    /\ LET xml == fetch_rss_page(server, next_page)
       IN  IF Unusable(xml)
           THEN /\ fpc' = "return"
                /\ fetch_log' = Append(fetch_log, Request(next_page))
                /\ UNCHANGED <<all_xml_pages, next_page>>
           ELSE /\ all_xml_pages' = Append(all_xml_pages, xml)
                /\ IF LastPage(xml, page_size)
                   THEN /\ fpc' = "return"
                        /\ next_page' = next_page
                        /\ fetch_log' = Append(fetch_log, Request(next_page))
                   ELSE /\ fpc' = "loop"
                        /\ next_page' = next_page + 1
                        /\ fetch_log' = Append(fetch_log, Request(next_page)) \o Pause(next_page)
    /\ UNCHANGED <<server, page_size, mergeVars, csv_books, mainVars, coverVars, parseVars>>

FetchNext == FetchPage

\* fetch_rss is one thread: a request blocks until it is answered or times out,
\* and then the loop goes on
SpecFetch == FetchInit /\ [][FetchNext]_vars /\ WF_vars(FetchNext)

----------------------------------------------------------------------------
(* ensure_covers called twice on the same records, a record at a time *)

\* The records: a feed record with an id, an ISBN and an image; a feed record
\* without id and ISBN; a feed record with an id and nothing to download from;
\* a record without id, with an ISBN and a "nophoto" image; and the bulk
\* record of the first book, with the same id, its ISBN and no image.
CoverBooks ==
    { ParseItem(Item1),
      ParseItem(Item2),
      ParseItem(Item3),
      Assign(Assign(ParseItem(Item1), "id", 0), "image_url", ParseItem(Item2)["image_url"]),
      ParseRow(Row1) }

IsbnFile == ParseItem(Item1)["isbn"] \o DotJpg

\* The cover directory before the first call
CoverDisks ==
    { <<>>, File1 :> 2000, File1 :> MinCoverBytes, File1 :> 2000 @@ IsbnFile :> 2000 }

\* What a URL may answer: nothing, or a body of 500, 1000 or 2000 bytes
Outcomes == {NoAnswer, Body(500), Body(MinCoverBytes), Body(2000)}

CoverNetworks == [{ImgUrl, LargeUrl, MediumUrl} -> Outcomes]

MainOnlyIdle ==
    /\ pc = "idle"
    /\ read_xml = <<>> /\ current_xml = <<>> /\ toread_xml = <<>>
    /\ read_books = <<>> /\ current_books = <<>> /\ toread_books = <<>>
    /\ output = NotWritten
    /\ exit_code = Running

CoverInit ==
    /\ all_books \in SeqsUpTo(CoverBooks, MaxCovers)
    /\ network \in CoverNetworks
    /\ files \in CoverDisks
    /\ cover_map = <<>>
    /\ effects = <<>>
    /\ outcomes = <<>>
    /\ cidx = 0
    /\ calls = 1
    /\ first_call = <<>>
    /\ cpc = "loop"
    /\ MergeIdle
    /\ MainOnlyIdle
    /\ FetchIdle
    /\ ParseIdle

\* for i, b in enumerate(books): the body of the loop for the next record
CoverTurn ==
    /\ cpc = "loop"
    /\ cidx < Len(all_books)
    /\ LET st == EnsureCover([cover_map |-> cover_map, files |-> files,
                              effects |-> effects, outcomes |-> outcomes],
                             all_books[cidx + 1], network)
       IN  /\ cover_map' = st.cover_map
           /\ files' = st.files
           /\ effects' = st.effects
           /\ outcomes' = st.outcomes
    /\ cidx' = cidx + 1
    /\ UNCHANGED <<all_books, network, calls, first_call, cpc, mergeVars, csv_books,
                   mainOnlyVars, fetchVars, parseVars>>

\* return cover_map
CoverReturn ==
    /\ cpc = "loop"
    /\ cidx = Len(all_books)
    /\ cpc' = "return"
    /\ UNCHANGED <<all_books, network, cidx, outcomes, calls, first_call, cover_map,
                   files, effects, mergeVars, csv_books, mainOnlyVars, fetchVars, parseVars>>

\* The program is run again: ensure_covers is called on the same records, with
\* the cover directory as the first call left it
CoverAgain ==
    /\ cpc = "return"
    /\ calls = 1
    /\ first_call' = [cover_map |-> cover_map, effects |-> effects, outcomes |-> outcomes]
    /\ calls' = 2
    /\ cover_map' = <<>>
    /\ effects' = <<>>
    /\ outcomes' = <<>>
    /\ cidx' = 0
    /\ cpc' = "loop"
    /\ UNCHANGED <<all_books, network, files, mergeVars, csv_books, mainOnlyVars,
                   fetchVars, parseVars>>

CoverNext == CoverTurn \/ CoverReturn \/ CoverAgain

SpecCovers == CoverInit /\ [][CoverNext]_vars

----------------------------------------------------------------------------
(* parse_rss and load_csv on one item and one row, and what main makes of the
   two records *)

\* What the ISBN elements and columns may hold: nothing, too few digits, an
\* ISBN-10 with hyphens, the ="..." form of the export, an ISBN-10 that ends in X
RawIsbns ==
    { <<>>,
      << "1", "2", "-", "3" >>,
      << "0", "-", "3", "0", "6", "-", "4", "0", "6", "1", "5", "-", "2" >>,
      << "=", "\"", "9", "7", "8", "0", "4", "4", "1", "0", "1", "3", "5", "9", "3", "\"" >>,
      << "0", "-", "8", "0", "4", "4", "-", "2", "9", "5", "7", "-", "X" >> }

\* What the numeric elements and columns may hold: nothing, a number, a number
\* between blanks, a negative number, no number, a decimal number, a negative
\* decimal number, nan, -inf
RawNumbers ==
    { <<>>,
      << "3", "2", "0" >>,
      << " ", "7", " " >>,
      << "-", "5" >>,
      << "a", "b", "c" >>,
      << "4", ".", "2", "5" >>,
      << "-", "1", ".", "5" >>,
      << "n", "a", "n" >>,
      << "-", "i", "n", "f" >> }

\* The items: book 1 with the given ISBN elements and the given text in the
\* three numeric elements
RawItemsOf ==
    { [link |-> << "/", "b", "o", "o", "k", "/", "s", "h", "o", "w", "/", "1" >>, title |-> Dune,
       isbn13 |-> a, isbn |-> b, num_pages |-> n, user_rating |-> n, average_rating |-> n] :
      a \in RawIsbns, b \in RawIsbns \ {<< "=", "\"", "9", "7", "8", "0", "4", "4", "1", "0", "1", "3", "5", "9", "3", "\"" >>}, n \in RawNumbers }

\* The rows: book 1 on the read shelf, likewise
RawRowsOf ==
    { "Book Id" :> << "1" >> @@ "Title" :> Dune @@ "Exclusive Shelf" :> ReadShelfName
      @@ "ISBN13" :> a @@ "ISBN" :> b
      @@ "Number of Pages" :> n @@ "My Rating" :> n @@ "Average Rating" :> n :
      a \in RawIsbns \ {<< "1", "2", "-", "3" >>}, b \in {<<>>, << "0", "-", "8", "0", "4", "4", "-", "2", "9", "5", "7", "-", "X" >>}, n \in RawNumbers }

ParseInit ==
    /\ raw_item \in RawItemsOf
    /\ raw_row = <<>>
    /\ feed_recs = <<>>
    /\ bulk_recs = <<>>
    /\ reconciled = <<>>
    /\ ppc = "parse_rss"
    /\ MergeIdle
    /\ MainIdle
    /\ FetchIdle
    /\ CoverIdle

\* parse_rss on a page with the item
ParseFeed ==
    /\ ppc = "parse_rss"
    /\ feed_recs' = parse_rss(<< XmlPage(<< raw_item >>) >>)
    /\ ppc' = "load_csv"
    /\ UNCHANGED <<raw_item, raw_row, bulk_recs, reconciled, mergeVars, csv_books, mainVars,
                   fetchVars, coverVars>>

\* load_csv on a file with one row
LoadBulk ==
    /\ ppc = "load_csv"
    /\ \E row \in RawRowsOf :
        /\ raw_row' = row
        /\ bulk_recs' = load_csv(CsvFile(<< row >>))
    /\ ppc' = "merge"
    /\ UNCHANGED <<raw_item, feed_recs, reconciled, mergeVars, csv_books, mainVars,
                   fetchVars, coverVars>>

\* if csv_books: read_books = merge_rss_and_csv(read_books, csv_books)
MergeParsed ==
    /\ ppc = "merge"
    /\ reconciled' = Reconciled(feed_recs, bulk_recs)
    /\ ppc' = "done"
    /\ UNCHANGED <<raw_item, raw_row, feed_recs, bulk_recs, mergeVars, csv_books, mainVars,
                   fetchVars, coverVars>>

ParseNext == ParseFeed \/ LoadBulk \/ MergeParsed

SpecParse == ParseInit /\ [][ParseNext]_vars

\* The entry has a review at least as long as the bulk record of its id, and
\* pages other than 0 if that bulk record has
KeepsBulk(e) ==
    LET bulk == Lookup(csv_books, e.key)
    IN  /\ Len(Get(e.val, "review", <<>>)) >= Len(Get(bulk, "review", <<>>))
        /\ Get(bulk, "pages", 0) # 0 => Get(e.val, "pages", 0) # 0

\* C24: every feed record that resolves to the id of an entry is laid over that
\* one entry, in feed order (the entry takes the record's other fields, so the
\* last such record wins, and no entry is added, moved or otherwise changed);
\* after any number of such overlays, and in the list returned, the entry's
\* review is at least as long as the review of the bulk record of that id and
\* its pages is not 0 if the bulk record's pages was not 0.
C24_RepeatedOverlay ==
    /\ [][ (OverlayStep /\ Matches(merged, StepId)) =>
            /\ Len(merged') = Len(merged)
            /\ \A i \in 1..Len(merged) :
                /\ merged'[i].key = merged[i].key
                /\ merged[i].key # StepId => merged'[i] = merged[i]
            /\ \A f \in DOMAIN StepBook \ {"id", "pages", "review"} :
                Lookup(merged', StepId)[f] = StepBook[f] ]_vars
    /\ [](mpc \in {"loop", "return"} => \A i \in 1..Len(merged) : KeepsBulk(merged[i]))
    /\ [](mpc = "return" =>
            \A i \in 1..Len(result) : \E j \in 1..Len(merged) : result[i] = merged[j].val)

\* Two different feed records of book 1 were laid over the bulk record with 320
\* pages and a review of three characters, the first with 250 pages and a
\* review of four, the second with neither: the record returned has the image
\* of the second and the pages and the review of the first
C24_Witness ==
    /\ mpc = "return"
    /\ Len(rss_books) = 2
    /\ rss_books[1]["id"] = 1 /\ rss_books[2]["id"] = 1
    /\ Get(rss_books[1], "pages", 0) = 250
    /\ Get(rss_books[2], "pages", 0) = 0 /\ Get(rss_books[2], "review", <<>>) = <<>>
    /\ HasKey(csv_books, 1)
    /\ Get(Lookup(csv_books, 1), "pages", 0) = 320
    /\ Len(Get(Lookup(csv_books, 1), "review", <<>>)) = 3
    /\ \E i \in 1..Len(result) :
        /\ result[i]["id"] = 1
        /\ Get(result[i], "pages", 0) = 250
        /\ Len(Get(result[i], "review", <<>>)) = 4
        /\ result[i]["image_url"] = rss_books[2]["image_url"]
        /\ rss_books[2]["image_url"] # rss_books[1]["image_url"]

\* The first sixty characters of the title, stripped and in lower case
KeyOfTitle(title) == SubSeq(Lower(Strip(title)), 1, Min(60, Len(Lower(Strip(title)))))

\* The bulk records that have the title key, by position in the bulk mapping
WithTitleKey(key) == {i \in 1..Len(csv_books) : KeyOfTitle(csv_books[i].val["title"]) = key}

\* The last of them
Owner(key) == CHOOSE i \in WithTitleKey(key) : \A j \in WithTitleKey(key) : j <= i

OnReadShelf(i) == csv_books[i].val["shelf"] = << "r", "e", "a", "d" >>

\* C25: the title index, which is built before the first feed record is
\* looked at and not changed after, has a key for the title key of every bulk
\* record, of whatever shelf, and gives it the id of the last bulk record with
\* that title key; an id-0 feed record changes no entry but that of the last bulk record
\* with its title key, and changes that entry if that record is on the "read"
\* shelf (with an id other than 0); when that record is on another shelf, or
\* no bulk record has the title key, the feed record changes nothing, even if
\* an earlier bulk record on the "read" shelf has the same title key.
C25_LastIndexedOwnsKey ==
    /\ []((mpc = "loop" /\ idx = 0) =>
            /\ DOMAIN csv_by_title = {KeyOfTitle(csv_books[i].val["title"]) : i \in 1..Len(csv_books)}
            /\ \A key \in DOMAIN csv_by_title : csv_by_title[key] = csv_books[Owner(key)].key)
    /\ [][mpc = "loop" => csv_by_title' = csv_by_title /\ csv_books' = csv_books]_vars
    /\ [][ (OverlayStep /\ StepBook["id"] = 0) =>
            LET key == KeyOfTitle(StepBook["title"])
            IN  IF WithTitleKey(key) # {} /\ OnReadShelf(Owner(key)) /\ csv_books[Owner(key)].key # 0
                THEN /\ \A i \in 1..Len(merged) :
                        merged[i].key # csv_books[Owner(key)].key => merged'[i] = merged[i]
                     /\ Len(merged') = Len(merged)
                     /\ \A f \in DOMAIN StepBook \ {"id", "pages", "review"} :
                            Lookup(merged', csv_books[Owner(key)].key)[f] = StepBook[f]
                     /\ Lookup(merged', csv_books[Owner(key)].key)["id"] = csv_books[Owner(key)].key
                ELSE merged' = merged ]_vars

\* An id-0 feed record with the title key of two bulk records, the first on the
\* "read" shelf and the second, which owns the key, on another, has been
\* dropped: the call has returned the first bulk record as it was
C25_Witness ==
    /\ mpc = "return"
    /\ Len(rss_books) = 1
    /\ rss_books[1]["id"] = 0
    /\ Len(csv_books) = 2
    /\ WithTitleKey(KeyOfTitle(rss_books[1]["title"])) = {1, 2}
    /\ OnReadShelf(1)
    /\ ~OnReadShelf(2)
    /\ csv_books[1].key # 0
    /\ result = << csv_books[1].val >>

----------------------------------------------------------------------------
(* Claims about main *)

\* What parse_rss made of the pages fetched from the "read" shelf
FeedRecords == parse_rss(read_xml)

\* The same records in the same order, field for field, but for image_url
SameButImageUrl(a, b) ==
    /\ Len(a) = Len(b)
    /\ \A i \in 1..Len(a) :
        /\ DOMAIN a[i] = DOMAIN b[i]
        /\ \A k \in DOMAIN a[i] \ {"image_url"} : a[i][k] = b[i][k]

BulkLoaded == pc \in {"merge", "covers", "rewrite", "process", "done"}

\* C9: when load_csv returned an empty mapping (no file, or a file without
\* rows), the read records that main hands to ensure_covers are exactly the
\* records parse_rss returned, in the same order, and all_books starts with
\* them; the records process_data receives and the written page shows are
\* still those records, none dropped, none added, no field changed but the
\* image_url that the cover step points at the local file.
C9_FeedOnlyPassThrough ==
    (BulkLoaded /\ csv_books = <<>>) =>
        /\ pc \in {"covers", "rewrite"} => read_books = FeedRecords
        /\ pc = "covers" => AllBooks = FeedRecords \o current_books \o toread_books
        /\ pc \in {"process", "done"} => SameButImageUrl(read_books, FeedRecords)
        /\ pc = "done" => output.data.all_books = read_books

\* The bulk mapping came back empty and the feed's two records, one of them
\* without an id, have gone through reconciliation and the cover step, which
\* gave one of them a local image
C9_Witness ==
    /\ pc = "process"
    /\ csv_books = <<>>
    /\ Len(read_books) = 2
    /\ \E i \in 1..Len(read_books) : read_books[i]["id"] = 0
    /\ \E i \in 1..Len(read_books) : read_books[i]["image_url"] # FeedRecords[i]["image_url"]

OnlyFetched == \A i \in 1..Len(effects) : effects[i].op = "fetch"

PastTheCheck == pc \in {"load", "merge", "covers", "rewrite", "process", "done"}

\* C10: the run exits with status 1 exactly when parse_rss returned no record
\* for the "read" shelf: at the check, an empty read list leads to the exit
\* and a non-empty one to load_csv, whatever the other two shelves hold; at
\* the exit with status 1 the run has only fetched the feeds (no bulk file
\* loaded, no cover requested or stored, nothing written); past the check the
\* run has no exit status until it has written the page, and then status 0,
\* whatever the bulk file, the other shelves, the cover directory and the
\* network are.
C10_AbortOnlyWithoutReadBooks ==
    /\ exit_code = 1 =>
        /\ pc = "exit"
        /\ FeedRecords = <<>>
        /\ OnlyFetched
        /\ files = <<>> /\ cover_map = <<>>
        /\ ~output.written
    /\ pc = "exit" => exit_code = 1
    /\ pc = "check" =>
        /\ ENABLED (CheckBooks /\ pc' = "exit" /\ exit_code' = 1) <=> FeedRecords = <<>>
        /\ ENABLED (CheckBooks /\ pc' = "load" /\ exit_code' = Running) <=> FeedRecords # <<>>
    /\ PastTheCheck => FeedRecords # <<>> /\ exit_code = IF pc = "done" THEN 0 ELSE Running
    /\ pc = "done" => output.written

\* The run has exited with status 1 although the other two shelves had records
C10_Witness ==
    /\ pc = "exit"
    /\ exit_code = 1
    /\ read_books = <<>>
    /\ current_books # <<>>
    /\ toread_books # <<>>

\* main is past the reconciliation and has not returned
AfterReconciliation == pc \in {"covers", "rewrite", "process"}

\* The cache key of a record
CacheKey(b) == cover_filename(b["id"], Get(b, "isbn", <<>>))

\* The record is as it was but for image_url, and image_url is as it was or
\* is the path the map has for the record's cache key, covers/<cache key>
OnlyImageRewritten(old, new, map) ==
    /\ DOMAIN new \ {"image_url"} = DOMAIN old \ {"image_url"}
    /\ \A k \in DOMAIN old \ {"image_url"} : new[k] = old[k]
    /\ \/ /\ "image_url" \in DOMAIN new <=> "image_url" \in DOMAIN old
          /\ "image_url" \in DOMAIN old => new["image_url"] = old["image_url"]
       \/ /\ CacheKey(old) # <<>>
          /\ CacheKey(old) \in DOMAIN map
          /\ new["image_url"] = map[CacheKey(old)]
          /\ new["image_url"] = CoversDir \o CacheKey(old)

ListKept(old, new, map) ==
    /\ Len(new) = Len(old)
    /\ \A i \in 1..Len(old) : OnlyImageRewritten(old[i], new[i], map)

\* The records process_data returns are records of the three lists
Aggregated(data) ==
    /\ data.all_books = read_books
    /\ \A i \in 1..Len(data.recent) : \E j \in 1..Len(read_books) : data.recent[i] = read_books[j]
    /\ \A i \in 1..Len(data.top5) : \E j \in 1..Len(read_books) : data.top5[i] = read_books[j]
    /\ \A i \in 1..Len(data.shelf) : \E j \in 1..Len(read_books) : data.shelf[i] = read_books[j]
    /\ data.current = SubSeq(current_books, 1, Len(data.current))
    /\ data.toread = SubSeq(toread_books, 1, Len(data.toread))

\* C21: in every step main takes after the reconciliation (ensure_covers, the
\* rewrite of image_url, process_data) each of the three lists keeps its
\* records in place and every field of every record but image_url; image_url
\* changes only for a record whose cache key has an entry in the cover map,
\* and then to that entry, which is covers/<cache key>; the records
\* process_data returns are the records of the lists, unchanged.
C21_OnlyImageUrlRewritten ==
    [][AfterReconciliation =>
        /\ ListKept(read_books, read_books', cover_map')
        /\ ListKept(current_books, current_books', cover_map')
        /\ ListKept(toread_books, toread_books', cover_map')
        /\ pc = "process" => Aggregated(output'.data)]_vars

\* The image_url of one record of the read list has been rewritten to its
\* cover, another record of the list has kept its own, and the page is written
C21_Witness ==
    /\ pc = "done"
    /\ output.written
    /\ \E i, j \in 1..Len(read_books) :
        /\ read_books[i]["image_url"] = CoversDir \o File1
        /\ CacheKey(read_books[j]) \notin DOMAIN cover_map
        /\ read_books[j]["image_url"] # <<>>
        /\ output.data.shelf = << read_books[i], read_books[j] >>

----------------------------------------------------------------------------
(* Claims about fetch_rss *)

\* Page k could not be fetched, or its body was empty or not XML
FailedAt(k) == k <= Len(server) /\ server[k].kind \in {"error", "empty", "garbage"}

\* Page k is a document without items
NoItemsAt(k) == k > Len(server) \/ (server[k].kind = "xml" /\ server[k].items = <<>>)

\* Page k has items, but fewer than per_page
ShortAt(k) ==
    /\ k <= Len(server)
    /\ server[k].kind = "xml"
    /\ server[k].items # <<>>
    /\ Len(server[k].items) < page_size

StopsAt(k) == FailedAt(k) \/ NoItemsAt(k) \/ ShortAt(k)

\* The first page that is not a full page
FirstStop == CHOOSE k \in 1..(Len(server) + 1) : StopsAt(k) /\ \A j \in 1..(k - 1) : ~StopsAt(j)

\* C11: in a call of fetch_rss the i-th request is the request of page i (so
\* the pages are asked for in the order 1, 2, 3, ... without a gap and each at
\* most once), every page requested before the last one requested was a full
\* page (so nothing is requested after the first page that failed, was not
\* XML, had no items or had fewer than per_page items), and the call returns.
C11_PagesInOrderNoRetry ==
    /\ [](\A i \in 1..Len(requested) : requested[i] = i)
    /\ [](\A i \in 1..(Len(requested) - 1) : ~StopsAt(i))
    /\ [](fpc = "return" => Len(requested) = FirstStop)
    /\ <>(fpc = "return")

\* Two full pages were fetched, the request of the third failed and the call
\* has returned
C11_Witness ==
    /\ fpc = "return"
    /\ requested = << 1, 2, 3 >>
    /\ page_size = 2
    /\ Len(server) = 3
    /\ server[3] = FailedPage

\* C12: when page k of a call of fetch_rss cannot be fetched or parsed, the
\* call returns (it has no other way out) the pages 1..k-1, in page order and
\* without page k; all along, the pages collected are the first pages of the
\* shelf, in order.
C12_FailureReturnsCollected ==
    /\ all_xml_pages = SubSeq(server, 1, Len(all_xml_pages))
    /\ fpc \in {"loop", "return"}
    /\ (fpc = "return" /\ FailedAt(FirstStop)) =>
            all_xml_pages = SubSeq(server, 1, FirstStop - 1)

\* Two full pages were collected and the third was not XML
C12_Witness ==
    /\ fpc = "return"
    /\ Len(all_xml_pages) = 2
    /\ Len(server) = 3
    /\ server[3] = GarbagePage

IsRequest(e) == e.op = "request"

IsSleep(e) == e.op = "sleep" /\ e.secs = 1

\* C22: in a call of fetch_rss every page request but the first comes right
\* after a sleep of the fixed length (one second), and that sleep comes right
\* after the request of the page before, which was fetched and collected; so
\* no two requests follow each other without a sleep between them.
C22_DelayBetweenRequests ==
    \A i \in 2..Len(fetch_log) :
        IsRequest(fetch_log[i]) =>
            /\ i >= 3
            /\ IsSleep(fetch_log[i - 1])
            /\ IsRequest(fetch_log[i - 2])
            /\ fetch_log[i - 2].page = fetch_log[i].page - 1
            /\ fetch_log[i - 2].page <= Len(all_xml_pages)
            /\ all_xml_pages[fetch_log[i - 2].page] = server[fetch_log[i - 2].page]

\* Three pages were requested, with a sleep after the first and after the
\* second, and the call has returned
C22_Witness ==
    /\ fpc = "return"
    /\ Len(fetch_log) = 5
    /\ IsRequest(fetch_log[1]) /\ IsSleep(fetch_log[2])
    /\ IsRequest(fetch_log[3]) /\ IsSleep(fetch_log[4])
    /\ IsRequest(fetch_log[5])
    /\ fetch_log[5].page = 3

----------------------------------------------------------------------------
(* Claims about ensure_covers *)

\* The step is a turn of the loop of ensure_covers, for the record TurnBook
Turn == cpc = "loop" /\ cidx < Len(all_books) /\ cidx' = cidx + 1

TurnBook == all_books[cidx + 1]

\* The cache key of a record, as a file name; <<>> without a key
KeyOf(b) ==
    IF b["id"] # 0 THEN IntToStr(b["id"]) \o DotJpg
    ELSE IF b["isbn"] # <<>> THEN b["isbn"] \o DotJpg
    ELSE <<>>

\* What the step has added to what the call has done
Done == SubSeq(effects', Len(effects) + 1, Len(effects'))

\* The record has a cache file of more than the minimum size
HasCover(b) ==
    KeyOf(b) # <<>> /\ KeyOf(b) \in DOMAIN files /\ files[KeyOf(b)] > MinCoverBytes

\* C13: the turn of ensure_covers for a record whose cache file exists with
\* more than MinCoverBytes bytes requests nothing (it does nothing to the
\* world at all), leaves every file as it is and maps the record's file name
\* to "covers/" + file name; no turn of a call removes or changes an entry, so
\* the entry is in the map the call returns.
C13_CachedCoverReused ==
    [][/\ (Turn /\ HasCover(TurnBook)) =>
            /\ effects' = effects
            /\ files' = files
            /\ KeyOf(TurnBook) \in DOMAIN cover_map'
            /\ cover_map'[KeyOf(TurnBook)] = CoversDir \o KeyOf(TurnBook)
       /\ (cpc = "loop") =>
            \A k \in DOMAIN cover_map : k \in DOMAIN cover_map' /\ cover_map'[k] = cover_map[k]
      ]_vars

\* The first record of the first call had a cover of 2000 bytes in the cache,
\* and has got its entry without a request
C13_Witness ==
    /\ calls = 1
    /\ cidx = 1
    /\ outcomes = << "cached" >>
    /\ File1 \in DOMAIN files /\ files[File1] = 2000
    /\ all_books[1] = ParseItem(Item1)
    /\ cover_map = File1 :> (CoversDir \o File1)
    /\ effects = <<>>

\* The first call downloaded the file and saved it
SavedByFirstCall(fname) ==
    \E i \in 1..Len(first_call.effects) : first_call.effects[i] = [op |-> "save", what |-> fname]

\* C14: in the second call of ensure_covers on the same records, the turn for
\* a record whose cover the first call downloaded and saved requests nothing,
\* and the second call returns the map the first call returned.
C14_SecondCallFromCache ==
    [][/\ (Turn /\ calls = 2 /\ KeyOf(TurnBook) # <<>> /\ SavedByFirstCall(KeyOf(TurnBook))) =>
            \A i \in 1..Len(Done) : Done[i].op # "get"
       /\ (calls = 2 /\ cpc = "loop" /\ cpc' = "return") =>
            cover_map' = first_call.cover_map
      ]_vars

\* The sources of a record, in the order claimed: its own image unless empty
\* or a "nophoto" one, then the large and the medium cover by ISBN
SourceChain(b) ==
    LET own == IF b["image_url"] = <<>> \/ Contains(b["image_url"], NoPhotoMark)
               THEN <<>> ELSE << b["image_url"] >>
        byIsbn == IF b["isbn"] = <<>> THEN <<>>
                  ELSE << OpenLibrary \o b["isbn"] \o << "-", "L", ".", "j", "p", "g" >>,
                          OpenLibrary \o b["isbn"] \o << "-", "M", ".", "j", "p", "g" >> >>
    IN  own \o byIsbn

Get_(url) == [op |-> "get", what |-> url]
Save_(fname) == [op |-> "save", what |-> fname]

\* The URL answers a body of fewer than MinCoverBytes bytes
Placeholder(url) == network[url].ok /\ network[url].size < MinCoverBytes

\* The URL answers a body that is not a placeholder
Accepted(url) == network[url].ok /\ ~(network[url].size < MinCoverBytes)

\* C15: in a turn of ensure_covers, a request answered with a body of fewer
\* than MinCoverBytes bytes is not followed by a write of the file, and the next
\* source of the record, if it has one, is requested right after it; when no
\* request of the turn is answered with a larger body, no file changes.
C15_PlaceholderRejected ==
    [][Turn =>
        /\ \A i \in 1..Len(Done) :
            (Done[i].op = "get" /\ Placeholder(Done[i].what)) =>
                /\ ~(i < Len(Done) /\ Done[i + 1].op = "save")
                /\ \A j \in 1..(Len(SourceChain(TurnBook)) - 1) :
                    SourceChain(TurnBook)[j] = Done[i].what =>
                        i < Len(Done) /\ Done[i + 1] = Get_(SourceChain(TurnBook)[j + 1])
        /\ (\A i \in 1..Len(Done) : Done[i].op = "get" => ~Accepted(Done[i].what)) =>
                files' = files
      ]_vars

\* The record's own image was a placeholder of 500 bytes: it was not saved, and
\* the large cover by ISBN was requested next and saved
C15_Witness ==
    /\ calls = 1
    /\ cidx = 1
    /\ all_books[1] = ParseItem(Item1)
    /\ network[ImgUrl] = Body(500)
    /\ network[LargeUrl] = Body(2000)
    /\ effects = << Get_(ImgUrl), Get_(LargeUrl), Save_(File1), [op |-> "sleep", what |-> File1] >>
    /\ files = File1 :> 2000

\* The place in the chain of the first source with an acceptable body, or 0
FirstAccepted(chain) ==
    IF \E j \in 1..Len(chain) : Accepted(chain[j])
    THEN CHOOSE j \in 1..Len(chain) : Accepted(chain[j]) /\ \A k \in 1..(j - 1) : ~Accepted(chain[k])
    ELSE 0

IsGet(e) == e.op = "get"
IsSave(e) == e.op = "save"

\* C16: the turn of ensure_covers for a record with a cache key and without a
\* cache file of more than MinCoverBytes bytes requests the sources of the
\* record in the order own image, large by ISBN, medium by ISBN, up to and
\* with the first that answers an acceptable body, and no other; that body is
\* saved to the record's cache file right after its request, it is the only
\* file written in the turn, and with no acceptable body no file is written.
C16_SourcesInOrder ==
    [][(Turn /\ KeyOf(TurnBook) # <<>> /\ ~HasCover(TurnBook)) =>
        LET chain == SourceChain(TurnBook)
            j == FirstAccepted(chain)
            gets == SelectSeq(Done, IsGet)
            saves == SelectSeq(Done, IsSave)
        IN  /\ gets = [k \in 1..(IF j = 0 THEN Len(chain) ELSE j) |-> Get_(chain[k])]
            /\ SubSeq(Done, 1, Len(gets)) = gets
            /\ IF j = 0
               THEN saves = <<>> /\ files' = files
               ELSE /\ saves = << Save_(KeyOf(TurnBook)) >>
                    /\ Done[Len(gets) + 1] = Save_(KeyOf(TurnBook))
                    /\ files' = Assign(files, KeyOf(TurnBook), network[chain[j]].size)
      ]_vars

\* The record's own image did not answer, the large cover was a placeholder and
\* the medium cover was saved: three requests in order, one file
C16_Witness ==
    /\ calls = 1
    /\ cidx = 1
    /\ all_books[1] = ParseItem(Item1)
    /\ ~network[ImgUrl].ok
    /\ network[LargeUrl] = Body(500)
    /\ effects = << Get_(ImgUrl), Get_(LargeUrl), Get_(MediumUrl), Save_(File1),
                    [op |-> "sleep", what |-> File1] >>
    /\ files = File1 :> network[MediumUrl].size

\* The record of the list at place i got no cover: it has a cache key, none
\* of its sources answered an acceptable body (or it has no source), and the
\* loop printed "no cover" for it
NoCoverFor(i) ==
    /\ i \in 1..Len(outcomes)
    /\ outcomes[i] = "no cover"

\* Another record of the list has the same cache key and got its cover, from
\* the cache or from a source
SharedCover(i) ==
    \E j \in 1..Len(outcomes) :
        /\ j # i
        /\ KeyOf(all_books[j]) = KeyOf(all_books[i])
        /\ outcomes[j] \in {"cached", "cover"}

\* C17 as claimed: when ensure_covers returns, a record for which every source
\* failed, or which had none, has no entry in the map, and main's rewrite
\* leaves its image_url as it was.
C17_AsClaimed ==
    cpc = "return" =>
        \A i \in 1..Len(all_books) :
            NoCoverFor(i) =>
                /\ KeyOf(all_books[i]) \notin DOMAIN cover_map
                /\ LocalImage(all_books[i], cover_map) = all_books[i]

\* C17: the turn of ensure_covers for a record with a cache key, without a
\* valid cache file and without a source that answers an acceptable body
\* leaves the map and the files as they are, prints "no cover" and goes on to
\* the next record; when the call returns, such a record has no entry in the
\* map and main's rewrite leaves its image_url as it was, unless another record
\* of the list has the same cache key and got its cover.
C17_NoCoverNoEntry ==
    /\ [][(/\ Turn
           /\ KeyOf(TurnBook) # <<>>
           /\ ~HasCover(TurnBook)
           /\ FirstAccepted(SourceChain(TurnBook)) = 0) =>
                /\ cover_map' = cover_map
                /\ files' = files
                /\ outcomes' = Append(outcomes, "no cover")
                /\ cpc' = "loop"]_vars
    /\ [](cpc = "return" =>
            \A i \in 1..Len(all_books) :
                (NoCoverFor(i) /\ ~SharedCover(i)) =>
                    /\ KeyOf(all_books[i]) \notin DOMAIN cover_map
                    /\ LocalImage(all_books[i], cover_map) = all_books[i])

\* The first call has returned: none of the three sources of the first record
\* answered an acceptable body and the second record had no source; the map
\* is empty and no file was written
C17_Witness ==
    /\ cpc = "return"
    /\ calls = 1
    /\ all_books = << ParseItem(Item1), ParseItem(Item3) >>
    /\ outcomes = << "no cover", "no cover" >>
    /\ (network[ImgUrl].ok /\ network[LargeUrl].ok /\ ~network[MediumUrl].ok)
    /\ Len(SelectSeq(effects, IsGet)) = 3
    /\ cover_map = <<>>
    /\ files = <<>>

\* C18: a turn of ensure_covers touches no file name and no map key but
\* str(id) + ".jpg" for a record with a non-zero id, and isbn + ".jpg" for a
\* record with id 0 and an ISBN, and a cover found for the record is mapped
\* under that name; the turn for a record with id 0 and an empty ISBN requests
\* nothing, writes no file and adds no entry.
C18_CacheKey ==
    [][Turn =>
        /\ (TurnBook["id"] = 0 /\ TurnBook["isbn"] = <<>>) =>
                /\ effects' = effects
                /\ files' = files
                /\ cover_map' = cover_map
        /\ (TurnBook["id"] # 0 \/ TurnBook["isbn"] # <<>>) =>
            LET key == IF TurnBook["id"] # 0
                       THEN IntToStr(TurnBook["id"]) \o << ".", "j", "p", "g" >>
                       ELSE TurnBook["isbn"] \o << ".", "j", "p", "g" >>
            IN  /\ \A k \in DOMAIN cover_map' :
                    k # key => k \in DOMAIN cover_map /\ cover_map'[k] = cover_map[k]
                /\ \A f \in DOMAIN files' : f # key => f \in DOMAIN files /\ files'[f] = files[f]
                /\ \A n \in 1..Len(Done) : Done[n].op = "save" => Done[n].what = key
                /\ outcomes'[cidx + 1] \in {"cached", "cover"} =>
                        key \in DOMAIN cover_map' /\ key \in DOMAIN files'
      ]_vars

\* A record without id and ISBN was passed over, and a record without id got
\* its cover under its ISBN
C18_Witness ==
    /\ calls = 1
    /\ cidx = 2
    /\ all_books[1]["id"] = 0 /\ all_books[1]["isbn"] = <<>>
    /\ all_books[2]["id"] = 0 /\ all_books[2]["isbn"] # <<>>
    /\ outcomes = << "skipped", "cover" >>
    /\ DOMAIN cover_map = {IsbnFile}
    /\ DOMAIN files = {IsbnFile}
    /\ effects[1].op = "get"

\* The sleeps among what was done
Sleeps(done) == {i \in 1..Len(done) : done[i].op = "sleep"}

\* C23: the turn of ensure_covers for a record that has a cache key and no
\* valid cache file ends with the delay, and has no other, whether a cover was
\* downloaded or every source failed; the turn for a record without a cache
\* key, or with a valid cache file, has no delay.
C23_DelayAfterAttempt ==
    [][Turn =>
        IF KeyOf(TurnBook) = <<>> \/ HasCover(TurnBook)
        THEN Sleeps(Done) = {}
        ELSE /\ Sleeps(Done) = {Len(Done)}
             /\ Done # <<>>
             /\ outcomes'[Len(outcomes')] \in {"cover", "no cover"}
      ]_vars

\* The first call downloaded the cover of its first record and found none for
\* the second; the second call took the first from the cache and found none
\* for the second: two delays, then one
C23_Witness ==
    /\ calls = 2
    /\ cidx = 2
    /\ first_call.outcomes = << "cover", "no cover" >>
    /\ Cardinality(Sleeps(first_call.effects)) = 2
    /\ outcomes = << "cached", "no cover" >>
    /\ Cardinality(Sleeps(effects)) = 1

----------------------------------------------------------------------------
(* Claims about the fields parse_rss and load_csv clean *)

\* The records parse_rss and load_csv have returned, and what the merge has
\* made of them
ParsedRecords ==
    {feed_recs[i] : i \in 1..Len(feed_recs)} \cup {bulk_recs[i].val : i \in 1..Len(bulk_recs)}

ReconciledRecords == {reconciled[i] : i \in 1..Len(reconciled)}

DecimalDigits == {"0", "1", "2", "3", "4", "5", "6", "7", "8", "9"}

WellFormedIsbn(isbn) ==
    \/ isbn = <<>>
    \/ Len(isbn) >= IsbnMinLen /\ \A i \in 1..Len(isbn) : isbn[i] \in DecimalDigits

\* C19: whatever the raw ISBN fields hold, the isbn of every record parse_rss
\* or load_csv returns, and so of every record of the reconciler's output, is
\* the empty string or a string of digits only, at least 10 long.
C19_IsbnWellFormed ==
    \A b \in ParsedRecords \cup ReconciledRecords : WellFormedIsbn(b.isbn)

\* A feed item with a hyphenated ISBN-10 and a row whose only ISBN ends in X have
\* been parsed and merged: the first keeps its ten digits, the second has none
C19_Witness ==
    /\ ppc = "done"
    /\ raw_item.isbn13 = <<>>
    /\ raw_item.isbn = << "0", "-", "3", "0", "6", "-", "4", "0", "6", "1", "5", "-", "2" >>
    /\ feed_recs[1].isbn = << "0", "3", "0", "6", "4", "0", "6", "1", "5", "2" >>
    /\ raw_row["ISBN13"] = <<>>
    /\ raw_row["ISBN"] = << "0", "-", "8", "0", "4", "4", "-", "2", "9", "5", "7", "-", "X" >>
    /\ bulk_recs[1].val.isbn = <<>>
    /\ reconciled[1].isbn = << "0", "3", "0", "6", "4", "0", "6", "1", "5", "2" >>

NonNegativeNumber(x) == x.kind = "number" /\ x.hundredths >= 0

\* The raw text of the three numeric fields of the item and of the row
RawNumberOf(b) ==
    IF b \in {feed_recs[i] : i \in 1..Len(feed_recs)}
    THEN raw_item.num_pages
    ELSE raw_row["Number of Pages"]

\* C20: for every raw value, pages, rating and avg_rating of every record
\* parse_rss or load_csv returns are non-negative, and a raw value that is not a
\* number gives 0.
C20_NumbersNonNegative ==
    \A b \in ParsedRecords :
        /\ b.pages >= 0
        /\ b.rating >= 0
        /\ NonNegativeNumber(b.avg_rating)
        /\ ~IntOf(RawNumberOf(b)).ok => b.pages = 0 /\ b.rating = 0
        /\ ~FloatOf(RawNumberOf(b)).ok => b.avg_rating = Float(0)

====
